---- MODULE Spec2Model ----
(***************************************************************************)
(* check-conditions: the scan pipeline (job producer, worker pool,         *)
(* aggregator), the legacy condition classifier and the poll controller    *)
(* of pkg/checkconditions, as a state machine.                             *)
(*                                                                         *)
(* Strings of the program are sequences of tokens (a token is a TLA+       *)
(* string standing for a run of bytes), so that prefix, suffix, substring  *)
(* and first-byte tests are computed and not assumed.                      *)
(***************************************************************************)
EXTENDS Integers, Sequences, FiniteSets, TLC

(***************************************************************************)
(* Bounds of the model.                                                    *)
(***************************************************************************)
MaxJobs == 2

(***************************************************************************)
(* Program constants.                                                      *)
(***************************************************************************)
NumWorkers == 10

(***************************************************************************)
(* String helpers (Go's strings package on token sequences).               *)
(***************************************************************************)
HasSuffix(s, suffix) ==
    /\ Len(s) >= Len(suffix)
    /\ SubSeq(s, Len(s) - Len(suffix) + 1, Len(s)) = suffix

HasPrefix(s, prefix) ==
    /\ Len(s) >= Len(prefix)
    /\ SubSeq(s, 1, Len(prefix)) = prefix

\* An unanchored regular expression without metacharacters matches a line
\* iff the line contains it.
MatchLiteral(p, s) ==
    \E i \in 1..(Len(s) - Len(p) + 1) : SubSeq(s, i, i + Len(p) - 1) = p

SeqContains(list, x) == \E i \in 1..Len(list) : list[i] = x

\* strings.Split(s, "@")[0]: the part of s before the first "@".
RECURSIVE BeforeAt(_)
BeforeAt(s) ==
    IF s = <<>> \/ Head(s) = "@" THEN <<>> ELSE <<Head(s)>> \o BeforeAt(Tail(s))

\* strings.TrimSpace
RECURSIVE TrimLeft(_)
TrimLeft(s) == IF s # <<>> /\ Head(s) = " " THEN TrimLeft(Tail(s)) ELSE s

RECURSIVE TrimRight(_)
TrimRight(s) ==
    IF s # <<>> /\ s[Len(s)] = " " THEN TrimRight(SubSeq(s, 1, Len(s) - 1)) ELSE s

TrimSpace(s) == TrimLeft(TrimRight(s))

(***************************************************************************)
(* Legacy classifier tables.                                               *)
(***************************************************************************)
resourcesToSkip ==
    << <<"bindings">>, <<"tokenreviews">>, <<"selfsubjectreviews">>,
       <<"selfsubjectaccessreviews">>, <<"selfsubjectrulesreviews">>,
       <<"localsubjectaccessreviews">>, <<"subjectaccessreviews">>,
       <<"componentstatuses">> >>

readyString == <<"Ready">>

toSkip ==
    << <<"Disruption", "Allowed">>,
       <<"LoadBalancer", "Attached", "To", "Network">>,
       <<"Network", "Attached">>,
       <<"Pod", "Ready", "To", "Start", "Containers">> >>

\* Mutant of conditionToSkip: no type is skipped.
conditionToSkipNothing(ct) == FALSE

conditionToSkip(ct) == SeqContains(toSkip, ct)

conditionTypesOfResourceWithPositiveMeaning(resource) ==
    CASE resource = <<"extensionconfigs">> -> << <<"Discovered">> >>
      [] resource = <<"hetznerclusters">> ->
            << <<"ControlPlane", "Endpoint", "Set">> >>
      [] resource = <<"hetznerbaremetalmachines">> ->
            << <<"Associate", "BMH", "Condition">> >>
      [] resource = <<"horizontalpodautoscalers">> ->
            << <<"AbleTo", "Scale">>, <<"Scaling", "Active">> >>
      [] resource = <<"hetznerbaremetalhosts">> ->
            << <<"RootDevice", "Hints", "Validated">> >>
      [] resource = <<"clusters">> -> << <<"Continuous", "Archiving">> >>
      [] resource = <<"clusteraddons">> ->
            << <<"ClusterAddon", "Config", "Validated">>,
               <<"ClusterAddon", "HelmChart", "Untarred">> >>
      [] resource = <<"engineimages">> -> << <<"ready">> >>
      [] resource = <<"nodes">> ->
            << <<"Schedulable">>, <<"Mount", "Propagation">> >>
      [] OTHER -> << >>

conditionTypesOfResourceWithNegativeMeaning(resource) ==
    CASE resource = <<"nodes">> ->
            << <<"Kernel", "Deadlock">>, <<"Readonly", "Filesystem">>,
               <<"Frequent", "Unregister", "NetDevice">>, <<"NTP", "Problem">> >>
      [] resource = <<"horizontalpodautoscalers">> ->
            << <<"Scaling", "Limited">> >>
      [] OTHER -> << >>

positiveSuffixes ==
    << <<"Applied">>, <<"Approved">>, <<"Available">>, <<"Built">>,
       <<"Complete">>, <<"Created">>, <<"Downloaded">>, <<"Established">>,
       <<"Healthy">>, <<"Initialized">>, <<"Installed">>,
       <<"LoadBalancer", "Attached">>, <<"Names", "Accepted">>, <<"Passed">>,
       <<"Pod", "Scheduled">>, <<"Progressing">>, <<"Provisioned">>,
       <<"Reachable">>, <<"Ready">>, <<"Reconciled">>,
       <<"Remediation", "Allowed">>, <<"Resized">>, <<"Succeeded">>,
       <<"Synced">>, <<"UpToDate">>, <<"Provider", "Upgraded">> >>

positivePrefixes == << <<"Created">> >>

negativeSuffixes ==
    << <<"Unavailable">>, <<"Pressure">>, <<"Dangling">>, <<"Unhealthy">> >>

conditionTypeHasPositiveMeaning(resource, ct) ==
    \/ SeqContains(conditionTypesOfResourceWithPositiveMeaning(resource), ct)
    \/ \E i \in 1..Len(positiveSuffixes) : HasSuffix(ct, positiveSuffixes[i])
    \/ \E i \in 1..Len(positivePrefixes) : HasPrefix(ct, positivePrefixes[i])

\* Mutant of conditionTypeHasNegativeMeaning: the suffix Restart is enough.
conditionTypeHasNegativeMeaningAnyRestart(resource, ct) ==
    \/ SeqContains(conditionTypesOfResourceWithNegativeMeaning(resource), ct)
    \/ \E i \in 1..Len(negativeSuffixes) : HasSuffix(ct, negativeSuffixes[i])
    \/ HasSuffix(ct, <<"Restart">>)

conditionTypeHasNegativeMeaning(resource, ct) ==
    \/ SeqContains(conditionTypesOfResourceWithNegativeMeaning(resource), ct)
    \/ \E i \in 1..Len(negativeSuffixes) : HasSuffix(ct, negativeSuffixes[i])
    \/ (HasPrefix(ct, <<"Frequent">>) /\ HasSuffix(ct, <<"Restart">>))

\* The regular expressions of conditionLinesToIgnoreRegexs. None is anchored
\* and a trailing ".*" matches the empty string, so each matches a line iff
\* the line contains its literal part.
conditionLinesToIgnoreRegexs ==
    << <<"machinesets", " ", "Machines", "Ready", "=", "False", " ", "Deleted", " ", "@">>,
       <<"machinesets", " ", "Ready", "=", "False", " ", "Deleted", " ", "@">>,
       <<"backuptargets", " ", "Unavailable", "=", "True", " ", "Unavailable", " ",
         "\"", "backup target URL is empty", "\"">>,
       <<"engines", " ", "Instance", "Creation", "=", "True">>,
       <<"engines", " ", "Filesystem", "ReadOnly", "=", "False">>,
       <<"replicas", " ", "Instance", "Creation", "=", "True">>,
       <<"replicas", " ", "Filesystem", "ReadOnly", "=", "False">>,
       <<"replicas", " ", "WaitFor", "BackingImage", "=", "False">>,
       <<"volumes", " ", "WaitFor", "BackingImage", "=", "False">>,
       <<"volumes", " ", "TooMany", "Snapshots", "=", "False">>,
       <<"volumes", " ", "Scheduled", "=", "True">>,
       <<"volumes", " ", "Restore", "=", "False">> >>

\* fmt.Sprintf("%s %s=%s %s %q", resource, type, status, reason, message)
conditionLine(resource, ct, cs, reason, message) ==
    resource \o <<" ">> \o ct \o <<"=", cs, " ">> \o reason
             \o <<" ", "\"">> \o message \o <<"\"">>

doneTypes ==
    << <<"Ready">>, <<"Containers", "Ready">>, <<"Infrastructure", "Ready">>,
       <<"Machines", "Ready">> >>

doneReasons == << <<"Pod", "Completed">>, <<"Instance", "Terminated">>, <<"Deleted">> >>

conditionDone(conditionType, conditionStatus, conditionReason) ==
    LET ct == IF conditionType = <<"Machines", "Ready">>
              THEN TrimSpace(BeforeAt(conditionReason))
              ELSE conditionType
    IN  /\ SeqContains(doneTypes, ct)
        /\ SeqContains(doneReasons, conditionReason)
        /\ conditionStatus = "False"

(***************************************************************************)
(* Condition rows and report lines.                                        *)
(*                                                                         *)
(* A condition entry of an object is [isMap, type, status, reason,         *)
(* message]; an entry that is not a key/value map has isMap = FALSE.       *)
(* A field of an object that may hold the conditions is [kind, items]      *)
(* with kind "absent" (no such path), "list" or "other" (not a list).      *)
(***************************************************************************)
conditionRow(ct, cs, reason, message) ==
    [conditionType |-> ct, conditionStatus |-> cs,
     conditionReason |-> reason, conditionMessage |-> message]

\* Mutant of handleCondition: an entry that is no map ends the object, the
\* rows collected so far are lost.
handleConditionLosesRows(condition, st, resource) ==
    IF ~condition.isMap THEN [st EXCEPT !.rows = <<>>]
    ELSE
      LET counted == [st EXCEPT !.checkedConditions = @ + 1]
          ct == condition.type
          cs == condition.status
          line == conditionLine(resource, ct, cs, condition.reason, condition.message)
      IN  IF conditionToSkip(ct) THEN counted
          ELSE IF cs = "True" /\ conditionTypeHasPositiveMeaning(resource, ct) THEN counted
          ELSE IF cs = "False" /\ conditionTypeHasNegativeMeaning(resource, ct) THEN counted
          ELSE IF \E i \in 1..Len(conditionLinesToIgnoreRegexs) :
                      MatchLiteral(conditionLinesToIgnoreRegexs[i], line) THEN counted
          ELSE IF conditionDone(ct, cs, condition.reason) THEN counted
          ELSE [counted EXCEPT !.rows =
                    Append(@, conditionRow(ct, cs, condition.reason, condition.message))]

\* handleCondition, on the pair (counter.checkedConditions, rows). The notice
\* `Invalid condition format` it prints for an entry that is no map is no
\* report line and is not kept.
handleCondition(condition, st, resource) ==
    IF ~condition.isMap THEN st
    ELSE
      LET counted == [st EXCEPT !.checkedConditions = @ + 1]
          ct == condition.type
          cs == condition.status
          line == conditionLine(resource, ct, cs, condition.reason, condition.message)
      IN  IF conditionToSkip(ct) THEN counted
          ELSE IF cs = "True" /\ conditionTypeHasPositiveMeaning(resource, ct) THEN counted
          ELSE IF cs = "False" /\ conditionTypeHasNegativeMeaning(resource, ct) THEN counted
          ELSE IF \E i \in 1..Len(conditionLinesToIgnoreRegexs) :
                      MatchLiteral(conditionLinesToIgnoreRegexs[i], line) THEN counted
          ELSE IF conditionDone(ct, cs, condition.reason) THEN counted
          ELSE [counted EXCEPT !.rows =
                    Append(@, conditionRow(ct, cs, condition.reason, condition.message))]

RECURSIVE handleConditions(_, _, _)
handleConditions(conditions, st, resource) ==
    IF conditions = <<>> THEN st
    ELSE handleConditions(Tail(conditions),
                          handleCondition(Head(conditions), st, resource), resource)

\* fmt.Sprintf("  %s %s %s Condition %s=%s %s %q (%s)", ...); the entries of
\* the model carry no lastTransitionTime, so the duration is empty.
outLine(obj, resource, r) ==
    <<" ", " ", obj.namespace, " ">> \o resource \o <<" ", obj.name, " ", "Condition", " ">>
        \o r.conditionType \o <<"=", r.conditionStatus, " ">> \o r.conditionReason
        \o <<" ", "\"">> \o r.conditionMessage \o <<"\"", " ", "(", ")">>

\* A user pattern is [kind, lit]: kind "dot" is the pattern `.`, kind "lit"
\* a pattern without metacharacters.
MatchString(re, line) ==
    IF re.kind = "dot" THEN Len(line) > 0 ELSE MatchLiteral(re.lit, line)

\* Mutant of rowsToPrint: every row is printed.
rowsToPrintAll(rows) == rows

\* The rows printConditions prints: all rows, without the Ready rows when a
\* row of another type has the status, reason and message of the first
\* Ready row.
rowsToPrint(rows) ==
    LET readyIdx == {i \in 1..Len(rows) : rows[i].conditionType = readyString}
        skipReadyCondition ==
            /\ readyIdx # {}
            /\ LET ready == rows[CHOOSE i \in readyIdx : \A j \in readyIdx : i <= j]
               IN  \E k \in 1..Len(rows) :
                      /\ rows[k].conditionType # readyString
                      /\ rows[k].conditionMessage = ready.conditionMessage
                      /\ rows[k].conditionReason = ready.conditionReason
                      /\ rows[k].conditionStatus = ready.conditionStatus
    IN  SelectSeq(rows, LAMBDA r : ~(skipReadyCondition /\ r.conditionType = readyString))

\* What the printed lines of an object contribute to the verdict of the cycle
\* under the subcommands `all` (a line was reported) and `waitfor` (a line
\* matches Regex); the verdict travels in checkAgain like that of `while`.
reportedVerdict(args, lines) ==
    CASE args.command = "all" -> lines # {}
      [] args.command = "waitfor" ->
            /\ args.Regex.set
            /\ \E l \in lines : MatchString(args.Regex.re, l)
      [] OTHER -> FALSE

\* printConditions: [checkedConditions, lines, again]
printConditions(args, conditions, checkedConditions, resource, obj) ==
    LET st == handleConditions(conditions,
                  [checkedConditions |-> checkedConditions, rows |-> <<>>], resource)
        printed == rowsToPrint(st.rows)
        lines == {outLine(obj, resource, printed[i]) : i \in 1..Len(printed)}
    IN  [checkedConditions |-> st.checkedConditions,
         lines |-> lines,
         again |-> \/ /\ args.WhileRegex.set
                      /\ \E l \in lines : MatchString(args.WhileRegex.re, l)
                   \/ reportedVerdict(args, lines)]

\* unstructured.NestedSlice: the list at the path, none when the path is
\* absent, an error when the value there is not a list.
NestedSlice(obj, resource) ==
    IF resource = <<"hetznerbaremetalhosts">> THEN obj.spec_status_conditions
    ELSE obj.status_conditions

\* printResources, on the output of the job: [out, lines, again, panicked]
RECURSIVE printResources(_, _, _, _)
printResources(args, items, resource, acc) ==
    IF items = <<>> \/ acc.panicked THEN acc
    ELSE
      LET obj == Head(items)
          found == NestedSlice(obj, resource)
          counted == [acc EXCEPT !.out.checkedResources = @ + 1]
      IN  IF found.kind = "other"
          THEN [counted EXCEPT !.panicked = TRUE]
          ELSE
            LET pc == printConditions(args,
                          IF found.kind = "list" THEN found.items ELSE <<>>,
                          counted.out.checkedConditions, resource, obj)
            IN  printResources(args, Tail(items), resource,
                    [counted EXCEPT !.out.checkedConditions = pc.checkedConditions,
                                    !.lines = @ \cup pc.lines,
                                    !.again = @ \/ pc.again])

ZeroOutput ==
    [checkedResourceTypes |-> 0, checkedResources |-> 0,
     checkedConditions |-> 0, checkAgain |-> FALSE]

\* Skip subresources like pod/logs, pod/status
containsSlash(s) == Len(s) > 0 /\ s[1] = "/"

\* Mutant of handleResourceType: a failed list call panics.
handleResourceTypePanicsOnError(args, job) ==
    LET name == job.gvr.Resource
        none == [out |-> ZeroOutput, lines |-> {}, again |-> FALSE, panicked |-> FALSE]
        typed == [none EXCEPT !.out.checkedResourceTypes = 1]
    IN  IF containsSlash(name) THEN none
        ELSE IF SeqContains(resourcesToSkip, name) THEN none
        ELSE IF job.list = "err" THEN [typed EXCEPT !.panicked = TRUE]
        ELSE LET r == printResources(args, job.items, name, typed)
             IN  [r EXCEPT !.out.checkAgain = r.again]

\* handleResourceType for a job whose list call returns ("ok" or "err"):
\* [out, lines, again, panicked]; out is the handleResourceTypeOutput.
handleResourceType(args, job) ==
    LET name == job.gvr.Resource
        none == [out |-> ZeroOutput, lines |-> {}, again |-> FALSE, panicked |-> FALSE]
        typed == [none EXCEPT !.out.checkedResourceTypes = 1]
    IN  IF containsSlash(name) THEN none
        ELSE IF SeqContains(resourcesToSkip, name) THEN none
        ELSE IF job.list = "err" THEN typed
        ELSE LET r == printResources(args, job.items, name, typed)
             IN  [r EXCEPT !.out.checkAgain = r.again]

\* Whether handleResourceType issues the list call for the job.
issuesListCall(job) ==
    /\ ~containsSlash(job.gvr.Resource)
    /\ ~SeqContains(resourcesToSkip, job.gvr.Resource)


(***************************************************************************)
(* Command lines and cluster contents.                                     *)
(***************************************************************************)
NoRegex == [set |-> FALSE, re |-> [kind |-> "dot", lit |-> <<>>]]
Regex(kind, lit) == [set |-> TRUE, re |-> [kind |-> kind, lit |-> lit]]

\* The user patterns of the model: `.` and `boom`.
Patterns == {Regex("dot", <<>>), Regex("lit", <<"boom">>)}

\* The Arguments a subcommand leaves behind: `while <regex>` sets WhileRegex,
\* `forever` (`while` without a pattern) sets WhileForever, `waitfor <regex>`
\* sets Regex and RegexIsWaitFor, `all` sets nothing.
ArgsOf(command, re) ==
    [command |-> command,
     WhileRegex |-> IF command = "while" THEN re ELSE NoRegex,
     WhileForever |-> (command = "forever"),
     Regex |-> IF command = "waitfor" THEN re ELSE NoRegex,
     RegexIsWaitFor |-> (command = "waitfor"),
     Timeout |-> 0]

ArgsSet ==
    {ArgsOf("all", NoRegex), ArgsOf("forever", NoRegex)}
        \cup {ArgsOf("while", re) : re \in Patterns}
        \cup {ArgsOf("waitfor", re) : re \in Patterns}

Absent == [kind |-> "absent", items |-> <<>>]
List(items) == [kind |-> "list", items |-> items]

Condition(ct, cs, reason, message) ==
    [isMap |-> TRUE, type |-> ct, status |-> cs, reason |-> reason, message |-> message]

Object(name, conditions) ==
    [namespace |-> "default", name |-> name,
     status_conditions |-> conditions, spec_status_conditions |-> Absent]

Job(group, resource, list, items) ==
    [gvr |-> [Group |-> group, Version |-> "v1", Resource |-> resource],
     list |-> list, items |-> items]

\* pods A, B, C: Ready=True; Ready=False PodCompleted; Ready=False CrashLoop "boom"
PodsJob ==
    Job("", <<"pods">>, "ok",
        << Object("A", List(<< Condition(<<"Ready">>, "True", <<>>, <<>>) >>)),
           Object("B", List(<< Condition(<<"Ready">>, "False", <<"Pod", "Completed">>, <<>>) >>)),
           Object("C", List(<< Condition(<<"Ready">>, "False", <<"CrashLoop">>, <<"boom">>) >>)) >>)

\* a deployment without conditions, and one that is not available
DeploymentsJob ==
    Job("apps", <<"deployments">>, "ok",
        << Object("nginx", Absent),
           Object("web", List(<< Condition(<<"Available">>, "False",
                                           <<"Minimum", "Replicas", "Unavailable">>, <<>>) >>)) >>)

\* a resource type whose list call fails (forbidden, not found, network)
NodesJob ==
    Job("", <<"nodes">>, "err",
        << Object("n1", List(<< Condition(<<"Ready">>, "False", <<"Kubelet", "Down">>, <<"boom">>) >>)) >>)

\* a resource type whose list call never returns
SecretsJob == Job("", <<"secrets">>, "hang", <<>>)

\* A value at the conditions path that is not a list (NestedSlice errors),
\* and an entry of a conditions list that is not a map.
NotAList == [kind |-> "other", items |-> <<>>]
NotAMap == [isMap |-> FALSE, type |-> <<>>, status |-> "", reason |-> <<>>, message |-> <<>>]

\* services s0: a list with an entry that is not a map and a reported entry;
\* s1: the conditions path holds a string; s2: a reported entry
ServicesJob ==
    Job("", <<"services">>, "ok",
        << Object("s0", List(<< NotAMap, Condition(<<"Synced">>, "False", <<"Err">>, <<>>) >>)),
           Object("s1", NotAList),
           Object("s2", List(<< Condition(<<"Synced">>, "False", <<"Err">>, <<"boom">>) >>)) >>)

\* a subresource, and a resource of the deny-list
PodsLogJob == Job("", <<"pods", "/", "log">>, "ok", <<>>)
BindingsJob == Job("", <<"bindings">>, "ok", <<>>)

IrregularKinds == {ServicesJob, PodsLogJob, BindingsJob}

JobKinds == {PodsJob, DeploymentsJob, NodesJob}

SeqsUpTo(S, n) == UNION {[1..k -> S] : k \in 1..n}

Clusters == SeqsUpTo(JobKinds, MaxJobs)

\* The clusters of the specification of one cycle: list calls may hang.
ClustersWithHang == SeqsUpTo(JobKinds \cup {SecretsJob}, MaxJobs)

\* The clusters with irregular content next to a regular resource type.
IrregularClusters == SeqsUpTo(IrregularKinds \cup {PodsJob}, MaxJobs)

\* --timeout is set
WithTimeout(a) == [a EXCEPT !.Timeout = 1]

\* handleResourceType is a function of its input alone: its results for the
\* inputs of the model, computed once.
AllArgs == ArgsSet \cup {WithTimeout(a) : a \in ArgsSet}
AllJobs == LET kinds == JobKinds \cup {SecretsJob} \cup IrregularKinds
           IN  kinds \cup {[k EXCEPT !.list = "ok"] : k \in kinds}
handled == [a \in AllArgs, job \in AllJobs |-> handleResourceType(a, job)]


(***************************************************************************)
(* State.                                                                  *)
(***************************************************************************)
VARIABLES
    arguments,           \* the Arguments of the run
    cluster,        \* what discovery and the list calls answer in this cycle
    mainPc,         \* position of the main goroutine
    nextJob,        \* createJobs: index of the next job to send
    jobsClosed,     \* close(jobs) was executed
    resultsClosed,  \* close(results) was executed
    wg,             \* sync.WaitGroup counter: workers that have not exited
    work,           \* per job: the worker that holds it, [pc, output]
    aggPc,          \* position of the aggregator goroutine
    aggResult,      \* the result the aggregator received and is adding
    counter,        \* the Counter of the cycle
    stdout,         \* the report lines printed in this cycle
    summary,        \* the numbers of the "Checked ..." line
    checkAgain,     \* what RunCheckAllConditions returned
    timeoutElapsed, \* the deadline of arguments.Timeout has passed
    crashed,        \* a goroutine panicked: the process is gone
    exitCode,       \* exit status of the process, -1 while it runs
    fatal,          \* the fatal error met before the first cycle, or "none"
    config,         \* the Config: its groupTree
    inserted,       \* history: the tuples given to Config.AddRegex
    verdicts,       \* history: the shouldSkip calls since the last AddRegex,
                    \* each with its query and its verdict
    settings,       \* the fields Mode and AutoAddFromLegacyConfig of Arguments
    configFile,     \* the config file found by ConfigPath when the process starts
    stderr,         \* the WARNING lines of the compare modes
    lastCall,       \* history: the last call of addLegacyIgnore and its result
    startConfig,    \* history: the Config as PersistentPreRunE left it
    tally           \* history of the cycle: per job the receives from the job
                    \* queue, the sends on the result queue and the list
                    \* calls, and the results the aggregator has merged

vars == <<arguments, cluster, mainPc, nextJob, jobsClosed, resultsClosed, wg,
          work, aggPc, aggResult, counter, stdout, summary, checkAgain,
          timeoutElapsed, crashed, exitCode, fatal, config, inserted, verdicts,
          settings, configFile, stderr, lastCall, startConfig, tally>>

\* What a scan cycle of the legacy classifier leaves alone.
outsideCycle ==
    <<fatal, config, inserted, verdicts, settings, configFile, stderr, lastCall,
      startConfig>>

\* A Config without rules: `&checkconditions.Config{}`, groupTree is nil.
EmptyConfig == [Resources |-> <<>>, groupTree |-> <<>>, path |-> <<>>]

\* --mode and --auto-add-from-legacy-config not given
DefaultSettings == [Mode |-> "only-old", AutoAddFromLegacyConfig |-> FALSE]

\* ConfigPath finds no file.
NoFile == [kind |-> "missing", resources |-> <<>>]

\* addLegacyIgnore was not called yet.
NoCall == [n |-> 0, q |-> <<>>, added |-> FALSE, err |-> "none", seen |-> {}]

ZeroCounter ==
    [checkedResources |-> 0, checkedConditions |-> 0,
     checkedResourceTypes |-> 0, checkAgain |-> FALSE]

NoSummary == [conditions |-> -1, resources |-> -1, types |-> -1]

Queued == [pc |-> "queued", output |-> ZeroOutput]

Jobs == 1..Len(cluster)

\* Workers blocked in `for input := range jobs`.
IdleWorkers == wg - Cardinality({j \in Jobs : work[j].pc \in {"handle", "send"}})

\* Nothing received, sent, listed or merged yet. failedBefore: the resource
\* types whose list call failed in an earlier cycle of this run.
ZeroTally(n) ==
    [received |-> [j \in 1..n |-> 0], results |-> [j \in 1..n |-> 0],
     lists |-> [j \in 1..n |-> 0], merged |-> 0, failedBefore |-> {}]

\* The state of the process when main is at pc, nothing else started.
InitState(a, c, pc, s, file, cfg) ==
    /\ arguments = a
    /\ cluster = c
    /\ mainPc = pc
    /\ nextJob = 1
    /\ jobsClosed = FALSE
    /\ resultsClosed = FALSE
    /\ wg = 0
    /\ work = [j \in 1..Len(c) |-> Queued]
    /\ aggPc = "none"
    /\ aggResult = ZeroOutput
    /\ counter = ZeroCounter
    /\ stdout = {}
    /\ summary = NoSummary
    /\ checkAgain = FALSE
    /\ timeoutElapsed = FALSE
    /\ crashed = FALSE
    /\ exitCode = -1
    /\ fatal = "none"
    /\ config = cfg
    /\ inserted = {}
    /\ verdicts = <<>>
    /\ settings = s
    /\ configFile = file
    /\ stderr = {}
    /\ lastCall = NoCall
    /\ startConfig = cfg
    /\ tally = ZeroTally(Len(c))

InitAt(a, c, pc) == InitState(a, c, pc, DefaultSettings, NoFile, EmptyConfig)

InitWith(a, c) == InitAt(a, c, "start")

Init == \E a \in ArgsSet, c \in Clusters : InitWith(a, c)

(***************************************************************************)
(* RunCheckAllConditions: the main goroutine.                              *)
(***************************************************************************)
\* make(chan) twice, createWorkers, the fresh Counter, go aggregator.
StartCycle ==
    /\ ~crashed
    /\ mainPc = "start"
    /\ mainPc' = "createJobs"
    /\ nextJob' = 1
    /\ jobsClosed' = FALSE
    /\ resultsClosed' = FALSE
    /\ wg' = NumWorkers
    /\ work' = [j \in Jobs |-> Queued]
    /\ aggPc' = "recv"
    /\ counter' = ZeroCounter
    /\ stdout' = {}
    /\ summary' = NoSummary
    /\ UNCHANGED outsideCycle
    /\ tally' = [ZeroTally(Len(cluster)) EXCEPT !.failedBefore = tally.failedBefore]
    /\ UNCHANGED <<arguments, cluster, aggResult, checkAgain, timeoutElapsed,
                   crashed, exitCode>>

\* Mutant of SendJob: the loop of createJobs does not move on to the next
\* resource, the job is sent again.
SendJobAgain ==
    /\ ~crashed
    /\ mainPc = "createJobs"
    /\ nextJob <= Len(cluster)
    /\ IdleWorkers > 0
    /\ work' = [work EXCEPT ![nextJob].pc = "handle"]
    /\ nextJob' = IF tally.received[nextJob] = 0 THEN nextJob ELSE nextJob + 1
    /\ UNCHANGED outsideCycle
    /\ tally' = [tally EXCEPT !.received[nextJob] = @ + 1]
    /\ UNCHANGED <<arguments, cluster, mainPc, jobsClosed, resultsClosed, wg,
                   aggPc, aggResult, counter, stdout, summary, checkAgain,
                   timeoutElapsed, crashed, exitCode>>

\* createJobs: `jobs <- input` on the unbuffered channel completes together
\* with the receive of an idle worker (`for input := range jobs`).
SendJob ==
    /\ ~crashed
    /\ mainPc = "createJobs"
    /\ nextJob <= Len(cluster)
    /\ IdleWorkers > 0
    /\ work' = [work EXCEPT ![nextJob].pc = "handle"]
    /\ nextJob' = nextJob + 1
    /\ UNCHANGED outsideCycle
    /\ tally' = [tally EXCEPT !.received[nextJob] = @ + 1]
    /\ UNCHANGED <<arguments, cluster, mainPc, jobsClosed, resultsClosed, wg,
                   aggPc, aggResult, counter, stdout, summary, checkAgain,
                   timeoutElapsed, crashed, exitCode>>

\* Mutant of CloseJobs: close(jobs) is forgotten.
CloseJobsForgotten ==
    /\ ~crashed
    /\ mainPc = "createJobs"
    /\ nextJob > Len(cluster)
    /\ mainPc' = "wait"
    /\ UNCHANGED outsideCycle
    /\ UNCHANGED tally
    /\ UNCHANGED <<arguments, cluster, nextJob, jobsClosed, resultsClosed, wg, work,
                   aggPc, aggResult, counter, stdout, summary, checkAgain,
                   timeoutElapsed, crashed, exitCode>>

\* createJobs returns; close(jobs)
CloseJobs ==
    /\ ~crashed
    /\ mainPc = "createJobs"
    /\ nextJob > Len(cluster)
    /\ jobsClosed' = TRUE
    /\ mainPc' = "wait"
    /\ UNCHANGED outsideCycle
    /\ UNCHANGED tally
    /\ UNCHANGED <<arguments, cluster, nextJob, resultsClosed, wg, work, aggPc,
                   aggResult, counter, stdout, summary, checkAgain,
                   timeoutElapsed, crashed, exitCode>>

\* wg.Wait() returns; close(results)
WaitAndCloseResults ==
    /\ ~crashed
    /\ mainPc = "wait"
    /\ wg = 0
    /\ resultsClosed' = TRUE
    /\ mainPc' = "printConditions"
    /\ UNCHANGED outsideCycle
    /\ UNCHANGED tally
    /\ UNCHANGED <<arguments, cluster, nextJob, jobsClosed, wg, work, aggPc,
                   aggResult, counter, stdout, summary, checkAgain,
                   timeoutElapsed, crashed, exitCode>>

\* fmt.Printf("Checked %d conditions of %d resources of %d types...") reads
\* the three fields of counter one after the other, without synchronisation
\* with the aggregator.
PrintChecked ==
    /\ ~crashed
    /\ \/ /\ mainPc = "printConditions"
          /\ summary' = [summary EXCEPT !.conditions = counter.checkedConditions]
          /\ mainPc' = "printResources"
       \/ /\ mainPc = "printResources"
          /\ summary' = [summary EXCEPT !.resources = counter.checkedResources]
          /\ mainPc' = "printTypes"
       \/ /\ mainPc = "printTypes"
          /\ summary' = [summary EXCEPT !.types = counter.checkedResourceTypes]
          /\ mainPc' = "return"
    /\ UNCHANGED outsideCycle
    /\ UNCHANGED tally
    /\ UNCHANGED <<arguments, cluster, nextJob, jobsClosed, resultsClosed, wg,
                   work, aggPc, aggResult, counter, stdout, checkAgain,
                   timeoutElapsed, crashed, exitCode>>

\* return counter.checkAgain, nil
ReturnCheckAgain ==
    /\ ~crashed
    /\ mainPc = "return"
    /\ checkAgain' = counter.checkAgain
    /\ mainPc' = "decide"
    /\ UNCHANGED outsideCycle
    /\ UNCHANGED tally
    /\ UNCHANGED <<arguments, cluster, nextJob, jobsClosed, resultsClosed, wg,
                   work, aggPc, aggResult, counter, stdout, summary,
                   timeoutElapsed, crashed, exitCode>>

(***************************************************************************)
(* The workers.                                                            *)
(***************************************************************************)
\* Mutant of HandleResourceType: a list call that fails is tried once more.
HandleResourceTypeListsAgain(j) ==
    /\ ~crashed
    /\ work[j].pc = "handle"
    /\ ~(issuesListCall(cluster[j]) /\ cluster[j].list = "hang")
    /\ LET r == handled[arguments, cluster[j]]
       IN  /\ stdout' = stdout \cup r.lines
           /\ crashed' = r.panicked
           /\ work' = [work EXCEPT ![j] = [pc |-> "send", output |-> r.out]]
    /\ UNCHANGED outsideCycle
    /\ tally' = [tally EXCEPT !.lists[j] =
                     IF ~issuesListCall(cluster[j]) THEN @
                     ELSE IF cluster[j].list = "err" THEN @ + 2 ELSE @ + 1]
    /\ UNCHANGED <<arguments, cluster, mainPc, nextJob, jobsClosed,
                   resultsClosed, wg, aggPc, aggResult, counter, summary,
                   checkAgain, timeoutElapsed, exitCode>>

\* Mutant of HandleResourceType: the worker also increments the Counter of
\* the cycle itself.
HandleResourceTypeAddsToCounter(j) ==
    /\ ~crashed
    /\ work[j].pc = "handle"
    /\ ~(issuesListCall(cluster[j]) /\ cluster[j].list = "hang")
    /\ LET r == handled[arguments, cluster[j]]
       IN  /\ stdout' = stdout \cup r.lines
           /\ crashed' = r.panicked
           /\ work' = [work EXCEPT ![j] = [pc |-> "send", output |-> r.out]]
           /\ counter' = [counter EXCEPT
                             !.checkedResourceTypes = @ + r.out.checkedResourceTypes]
    /\ UNCHANGED outsideCycle
    /\ tally' = [tally EXCEPT !.lists[j] = IF issuesListCall(cluster[j]) THEN @ + 1 ELSE @]
    /\ UNCHANGED <<arguments, cluster, mainPc, nextJob, jobsClosed,
                   resultsClosed, wg, aggPc, aggResult, summary,
                   checkAgain, timeoutElapsed, exitCode>>

\* results <- handleResourceType(input), first half: the worker that holds
\* job j runs handleResourceType. The list call of a job with list = "hang"
\* never returns.
HandleResourceType(j) ==
    /\ ~crashed
    /\ work[j].pc = "handle"
    /\ ~(issuesListCall(cluster[j]) /\ cluster[j].list = "hang")
    /\ LET r == handled[arguments, cluster[j]]
       IN  /\ stdout' = stdout \cup r.lines
           /\ crashed' = r.panicked
           /\ work' = [work EXCEPT ![j] = [pc |-> "send", output |-> r.out]]
    /\ UNCHANGED outsideCycle
    /\ tally' = [tally EXCEPT !.lists[j] = IF issuesListCall(cluster[j]) THEN @ + 1 ELSE @]
    /\ UNCHANGED <<arguments, cluster, mainPc, nextJob, jobsClosed,
                   resultsClosed, wg, aggPc, aggResult, counter, summary,
                   checkAgain, timeoutElapsed, exitCode>>

\* results <- output completes together with the aggregator's receive
\* (`for result := range results`); the worker is back at `range jobs`.
SendResult(j) ==
    /\ ~crashed
    /\ work[j].pc = "send"
    /\ aggPc = "recv"
    /\ aggResult' = work[j].output
    /\ aggPc' = "addResources"
    /\ work' = [work EXCEPT ![j].pc = "sent"]
    /\ UNCHANGED outsideCycle
    /\ tally' = [tally EXCEPT !.results[j] = @ + 1]
    /\ UNCHANGED <<arguments, cluster, mainPc, nextJob, jobsClosed,
                   resultsClosed, wg, counter, stdout, summary, checkAgain,
                   timeoutElapsed, crashed, exitCode>>

\* `range jobs` ends for an idle worker once jobs is closed; defer wg.Done()
WorkerExit ==
    /\ ~crashed
    /\ jobsClosed
    /\ IdleWorkers > 0
    /\ wg' = wg - 1
    /\ UNCHANGED outsideCycle
    /\ UNCHANGED tally
    /\ UNCHANGED <<arguments, cluster, mainPc, nextJob, jobsClosed,
                   resultsClosed, work, aggPc, aggResult, counter, stdout,
                   summary, checkAgain, timeoutElapsed, crashed, exitCode>>

(***************************************************************************)
(* The aggregator goroutine.                                               *)
(***************************************************************************)
\* Counter.add, statement by statement.
CounterAdd(c, o, pc) ==
    CASE pc = "addResources" ->
            [c EXCEPT !.checkedResources = @ + o.checkedResources]
      [] pc = "addConditions" ->
            [c EXCEPT !.checkedConditions = @ + o.checkedConditions]
      [] pc = "addTypes" ->
            [c EXCEPT !.checkedResourceTypes = @ + o.checkedResourceTypes]
      [] pc = "addAgain" ->
            [c EXCEPT !.checkAgain = @ \/ o.checkAgain]

AddNextPc(pc) ==
    CASE pc = "addResources" -> "addConditions"
      [] pc = "addConditions" -> "addTypes"
      [] pc = "addTypes" -> "addAgain"
      [] pc = "addAgain" -> "recv"

AggregatorAdd ==
    /\ ~crashed
    /\ aggPc \in {"addResources", "addConditions", "addTypes", "addAgain"}
    /\ counter' = CounterAdd(counter, aggResult, aggPc)
    /\ aggPc' = AddNextPc(aggPc)
    /\ UNCHANGED outsideCycle
    /\ tally' = [tally EXCEPT !.merged = IF aggPc = "addAgain" THEN @ + 1 ELSE @]
    /\ UNCHANGED <<arguments, cluster, mainPc, nextJob, jobsClosed,
                   resultsClosed, wg, work, aggResult, stdout, summary,
                   checkAgain, timeoutElapsed, crashed, exitCode>>

\* `range results` ends once results is closed.
AggregatorExit ==
    /\ ~crashed
    /\ aggPc = "recv"
    /\ resultsClosed
    /\ aggPc' = "exited"
    /\ UNCHANGED outsideCycle
    /\ UNCHANGED tally
    /\ UNCHANGED <<arguments, cluster, mainPc, nextJob, jobsClosed,
                   resultsClosed, wg, work, aggResult, counter, stdout, summary,
                   checkAgain, timeoutElapsed, crashed, exitCode>>


(***************************************************************************)
(* The poll controller: RunAll / RunAllOnce and the subcommands.           *)
(***************************************************************************)
\* Mutant of runAgain: WhileForever is not consulted.
runAgainIgnoresForever(a, again) == again

\* RunAllOnce returns true (after the sleep) iff WhileForever || checkAgain.
runAgain(a, again) == a.WhileForever \/ again

\* RunUntilRegex(WaitFor): stop iff a reported line matched, else repeat.
runAgainWaitFor(again) == ~again

\* SingleRun: one cycle; the caller exits 1 when told unhealthy, else 0.
exitCodeAll(unhealthy) == IF unhealthy THEN 1 ELSE 0

\* The decision after RunCheckAllConditions has returned.
Decide ==
    /\ ~crashed
    /\ mainPc = "decide"
    /\ \/ /\ arguments.command \in {"while", "forever"}
          /\ IF runAgain(arguments, checkAgain)
             THEN mainPc' = "sleep" /\ exitCode' = exitCode
             ELSE mainPc' = "stopped" /\ exitCode' = 0
       \/ /\ arguments.command = "waitfor"
          /\ IF runAgainWaitFor(checkAgain)
             THEN mainPc' = "sleep" /\ exitCode' = exitCode
             ELSE mainPc' = "stopped" /\ exitCode' = 0
       \/ /\ arguments.command = "all"
          /\ mainPc' = "stopped"
          /\ exitCode' = exitCodeAll(checkAgain)
    /\ UNCHANGED outsideCycle
    /\ UNCHANGED tally
    /\ UNCHANGED <<arguments, cluster, nextJob, jobsClosed, resultsClosed, wg,
                   work, aggPc, aggResult, counter, stdout, summary, checkAgain,
                   timeoutElapsed, crashed>>

\* time.Sleep returns, RunAllOnce returns true and RunAll calls it again; the
\* cluster may have changed in the meantime. The locals of the finished call
\* are gone (an aggregator still running writes a Counter nobody reads).
Sleep ==
    /\ ~crashed
    /\ mainPc = "sleep"
    /\ \E c \in Clusters :
          /\ cluster' = c
          /\ work' = [j \in 1..Len(c) |-> Queued]
          /\ tally' = [ZeroTally(Len(c)) EXCEPT
                          !.failedBefore = tally.failedBefore \cup
                              { cluster[j].gvr.Resource : j \in
                                  { k \in Jobs : tally.lists[k] > 0 /\ cluster[k].list = "err" } }]
    /\ mainPc' = "start"
    /\ nextJob' = 1
    /\ jobsClosed' = FALSE
    /\ resultsClosed' = FALSE
    /\ wg' = 0
    /\ aggPc' = "none"
    /\ aggResult' = ZeroOutput
    /\ counter' = ZeroCounter
    /\ stdout' = {}
    /\ summary' = NoSummary
    /\ checkAgain' = FALSE
    /\ UNCHANGED outsideCycle
    /\ UNCHANGED <<arguments, timeoutElapsed, crashed, exitCode>>

Next ==
    \/ StartCycle
    \/ SendJob
    \/ CloseJobs
    \/ WaitAndCloseResults
    \/ PrintChecked
    \/ ReturnCheckAgain
    \/ \E j \in Jobs : HandleResourceType(j)
    \/ \E j \in Jobs : SendResult(j)
    \/ WorkerExit
    \/ AggregatorAdd
    \/ AggregatorExit
    \/ Decide
    \/ Sleep

Spec == Init /\ [][Next]_vars

(***************************************************************************)
(* The Config: the rule lists of its resources and the tree AddRegex       *)
(* builds from them.                                                       *)
(***************************************************************************)
EmptyMap == [k \in {} |-> k]

Put(m, k, v) == [x \in DOMAIN m \cup {k} |-> IF x = k THEN v ELSE m[x]]

\* compilePattern: QuoteMeta makes every token a literal, then every quoted
\* star becomes `.*`; the whole is wrapped in ^ and $.
compilePattern(value) ==
    [i \in 1..Len(value) |->
        IF value[i] = "*" THEN [kind |-> "dotstar", tok |-> ""]
        ELSE [kind |-> "lit", tok |-> value[i]]]

\* regexp.MatchString of a compiled pattern: ^ and $ are the ends of the
\* text, and `.` matches every character but the newline.
RECURSIVE regexMatchString(_, _)
regexMatchString(re, str) ==
    IF re = <<>> THEN str = <<>>
    ELSE IF Head(re).kind = "lit"
         THEN /\ str # <<>>
              /\ Head(str) = Head(re).tok
              /\ regexMatchString(Tail(re), Tail(str))
         ELSE \/ regexMatchString(Tail(re), str)
              \/ /\ str # <<>>
                 /\ Head(str) # "\n"
                 /\ regexMatchString(re, Tail(str))

Rule(group, resource, cType, cStatus, cReason, cMessage) ==
    [group |-> group, resource |-> resource, cType |-> cType,
     cStatus |-> cStatus, cReason |-> cReason, cMessage |-> cMessage]

\* AddRegex: the tree with the nodes of the tuple added where they are missing
AddRegex(c, group, resource, cType, cStatus, cReason, cMessage) ==
    LET groupNodeVal ==
            IF group \in DOMAIN c.groupTree THEN c.groupTree[group]
            ELSE [regex |-> compilePattern(group), resources |-> EmptyMap]
        resNode ==
            IF resource \in DOMAIN groupNodeVal.resources
            THEN groupNodeVal.resources[resource]
            ELSE [regex |-> compilePattern(resource), types |-> EmptyMap]
        typeNodeVal ==
            IF cType \in DOMAIN resNode.types THEN resNode.types[cType]
            ELSE [regex |-> compilePattern(cType), statuses |-> EmptyMap]
        statusNodeVal ==
            IF cStatus \in DOMAIN typeNodeVal.statuses
            THEN typeNodeVal.statuses[cStatus]
            ELSE [regex |-> compilePattern(cStatus), reasons |-> EmptyMap]
        reasonNodeVal ==
            IF cReason \in DOMAIN statusNodeVal.reasons
            THEN statusNodeVal.reasons[cReason]
            ELSE [regex |-> compilePattern(cReason), messages |-> EmptyMap]
        messageNodeVal ==
            IF cMessage \in DOMAIN reasonNodeVal.messages
            THEN reasonNodeVal.messages[cMessage]
            ELSE [regex |-> compilePattern(cMessage)]
        reasonNew == [reasonNodeVal EXCEPT !.messages = Put(@, cMessage, messageNodeVal)]
        statusNew == [statusNodeVal EXCEPT !.reasons = Put(@, cReason, reasonNew)]
        typeNew == [typeNodeVal EXCEPT !.statuses = Put(@, cStatus, statusNew)]
        resNew == [resNode EXCEPT !.types = Put(@, cType, typeNew)]
        groupNew == [groupNodeVal EXCEPT !.resources = Put(@, resource, resNew)]
    IN  [c EXCEPT !.groupTree = Put(@, group, groupNew)]

\* The keys of a map in the order of one walk
keysInOrder(m, order) == SelectSeq(order, LAMBDA k : k \in DOMAIN m)

\* Mutant of matchMessages: the first node visited decides.
RECURSIVE matchMessagesFirstNode(_, _, _)
matchMessagesFirstNode(messages, keys, cMessage) ==
    /\ keys # <<>>
    /\ regexMatchString(messages[Head(keys)].regex, cMessage)

RECURSIVE matchMessages(_, _, _)
matchMessages(messages, keys, cMessage) ==
    IF keys = <<>> THEN FALSE
    ELSE IF regexMatchString(messages[Head(keys)].regex, cMessage) THEN TRUE
    ELSE matchMessages(messages, Tail(keys), cMessage)

RECURSIVE matchReasons(_, _, _, _)
matchReasons(reasons, keys, order, q) ==
    IF keys = <<>> THEN FALSE
    ELSE LET node == reasons[Head(keys)]
         IN  IF /\ regexMatchString(node.regex, q.cReason)
                /\ matchMessages(node.messages, keysInOrder(node.messages, order), q.cMessage)
             THEN TRUE
             ELSE matchReasons(reasons, Tail(keys), order, q)

RECURSIVE matchStatuses(_, _, _, _)
matchStatuses(statuses, keys, order, q) ==
    IF keys = <<>> THEN FALSE
    ELSE LET node == statuses[Head(keys)]
         IN  IF /\ regexMatchString(node.regex, <<q.cStatus>>)
                /\ matchReasons(node.reasons, keysInOrder(node.reasons, order), order, q)
             THEN TRUE
             ELSE matchStatuses(statuses, Tail(keys), order, q)

RECURSIVE matchTypes(_, _, _, _)
matchTypes(types, keys, order, q) ==
    IF keys = <<>> THEN FALSE
    ELSE LET node == types[Head(keys)]
         IN  IF /\ regexMatchString(node.regex, q.cType)
                /\ matchStatuses(node.statuses, keysInOrder(node.statuses, order), order, q)
             THEN TRUE
             ELSE matchTypes(types, Tail(keys), order, q)

RECURSIVE matchResources(_, _, _, _)
matchResources(resources, keys, order, q) ==
    IF keys = <<>> THEN FALSE
    ELSE LET node == resources[Head(keys)]
         IN  IF /\ regexMatchString(node.regex, q.resource)
                /\ matchTypes(node.types, keysInOrder(node.types, order), order, q)
             THEN TRUE
             ELSE matchResources(resources, Tail(keys), order, q)

RECURSIVE matchGroups(_, _, _, _)
matchGroups(groupTree, keys, order, q) ==
    IF keys = <<>> THEN FALSE
    ELSE LET node == groupTree[Head(keys)]
         IN  IF /\ regexMatchString(node.regex, q.group)
                /\ matchResources(node.resources, keysInOrder(node.resources, order), order, q)
             THEN TRUE
             ELSE matchGroups(groupTree, Tail(keys), order, q)

\* shouldSkip, walking every map in the given order
shouldSkip(c, order, q) ==
    matchGroups(c.groupTree, keysInOrder(c.groupTree, order), order, q)

\* wildcardOr: the empty text stands for the star
wildcardOr(value) == IF value = <<>> THEN <<"*">> ELSE value

\* strings.EqualFold on the texts of the model
EqualFold(a, b) ==
    LET lower(t) == CASE t = <<"Core">> -> <<"core">>
                      [] t = <<"true">> -> <<"True">>
                      [] t = <<"false">> -> <<"False">>
                      [] OTHER -> t
    IN  lower(a) = lower(b)

canonicalGroup(group) ==
    LET g == TrimSpace(group)
    IN  IF EqualFold(g, <<"core">>) THEN <<>> ELSE g

ConditionMatcher(cType, cStatus, cReason, cMessage) ==
    [Type |-> cType, Status |-> cStatus, Reason |-> cReason, Message |-> cMessage]

ResourceConfig(group, name, skipIfTrue, skipIfFalse) ==
    [ResourceGroup |-> group, Name |-> name,
     SkipIfTrue |-> skipIfTrue, SkipIfFalse |-> skipIfFalse]

\* The error of a config that is not valid
ErrInvalidConfigYAML == "invalid config yaml"

\* appendAndValidateMatchers: a matcher of the file must not set status
appendAndValidateMatchers(matchers) ==
    IF \E i \in 1..Len(matchers) : TrimSpace(matchers[i].Status) # <<>>
    THEN [err |-> ErrInvalidConfigYAML, matchers |-> <<>>]
    ELSE [err |-> "none", matchers |-> matchers]

\* decodePayload of one entry of `resources`: [resourceGroup, group, name,
\* skipIfTrue, skipIfFalse]
decodePayload(payload) ==
    LET t == appendAndValidateMatchers(payload.skipIfTrue)
        f == appendAndValidateMatchers(payload.skipIfFalse)
    IN  IF t.err # "none" THEN [err |-> t.err, resource |-> <<>>]
        ELSE IF f.err # "none" THEN [err |-> f.err, resource |-> <<>>]
        ELSE [err |-> "none",
              resource |-> ResourceConfig(
                  IF payload.resourceGroup # <<>> THEN payload.resourceGroup
                  ELSE payload.group,
                  payload.name, t.matchers, f.matchers)]

\* addMatchers: one AddRegex per matcher; a matcher without type is an error
RECURSIVE addMatchers(_, _, _, _, _)
addMatchers(c, group, name, matchers, defaultStatus) ==
    IF matchers = <<>> THEN [err |-> "none", config |-> c]
    ELSE LET matcher == Head(matchers)
             status == IF TrimSpace(matcher.Status) = <<>> THEN defaultStatus
                       ELSE matcher.Status
         IN  IF matcher.Type = <<>> THEN [err |-> ErrInvalidConfigYAML, config |-> c]
             ELSE addMatchers(
                      AddRegex(c, group, name, matcher.Type, wildcardOr(status),
                               wildcardOr(matcher.Reason), wildcardOr(matcher.Message)),
                      group, name, Tail(matchers), defaultStatus)

\* buildTree, after the skipIfTrue matchers (result t) and the skipIfFalse
\* matchers (result f) of a resource: the first error ends the loading
RECURSIVE buildTreeFrom(_, _)
afterSkipIfFalse(f, rest) ==
    IF f.err # "none" THEN f ELSE buildTreeFrom(f.config, rest)

afterSkipIfTrue(t, group, name, resource, rest) ==
    IF t.err # "none" THEN t
    ELSE afterSkipIfFalse(
             addMatchers(t.config, group, name, resource.SkipIfFalse, <<"False">>), rest)

\* Mutant of buildTreeFrom: a resource without group is taken as it is.
buildTreeAcceptsNoGroup(c, resources) ==
    IF resources = <<>> THEN [err |-> "none", config |-> c]
    ELSE afterSkipIfTrue(
             addMatchers(c, canonicalGroup(Head(resources).ResourceGroup),
                         wildcardOr(Head(resources).Name),
                         Head(resources).SkipIfTrue, <<"True">>),
             canonicalGroup(Head(resources).ResourceGroup),
             wildcardOr(Head(resources).Name), Head(resources), Tail(resources))

\* buildTree, from the resource at the head of resources on
buildTreeFrom(c, resources) ==
    IF resources = <<>> THEN [err |-> "none", config |-> c]
    ELSE IF TrimSpace(Head(resources).ResourceGroup) = <<>>
    THEN [err |-> ErrInvalidConfigYAML, config |-> c]
    ELSE afterSkipIfTrue(
             addMatchers(c, canonicalGroup(Head(resources).ResourceGroup),
                         wildcardOr(Head(resources).Name),
                         Head(resources).SkipIfTrue, <<"True">>),
             canonicalGroup(Head(resources).ResourceGroup),
             wildcardOr(Head(resources).Name), Head(resources), Tail(resources))

buildTree(c) == buildTreeFrom(c, c.Resources)

\* LoadConfigFromPath after yaml.UnmarshalStrict has decoded the resources
loadDecoded(decoded, path) ==
    IF \E i \in 1..Len(decoded) : decoded[i].err # "none"
    THEN [err |-> ErrInvalidConfigYAML, config |-> EmptyConfig]
    ELSE buildTree([Resources |-> [i \in 1..Len(decoded) |-> decoded[i].resource],
                    groupTree |-> EmptyMap, path |-> path])

\* LoadConfigFromPath on a file [kind, resources]: kind "missing" (no file),
\* "unreadable", "unparseable" (no YAML of the expected shape), "yaml". No
\* config is returned with an error.
LoadConfigFromPath(file, path) ==
    CASE file.kind = "missing" -> [err |-> "none", config |-> EmptyConfig]
      [] file.kind = "unreadable" ->
            [err |-> "unable to read config", config |-> EmptyConfig]
      [] file.kind = "unparseable" ->
            [err |-> ErrInvalidConfigYAML, config |-> EmptyConfig]
      [] OTHER ->
            loadDecoded([i \in 1..Len(file.resources) |->
                            decodePayload(file.resources[i])], path)

\* The lists of a resource that a status selects
skipTargetTrue == 1

skipTargetFalse == 2

skipTargetBoth == 3

determineSkipTarget(status) ==
    IF TrimSpace(status) = <<>> \/ TrimSpace(status) = <<"*">> THEN skipTargetBoth
    ELSE IF EqualFold(TrimSpace(status), <<"true">>) THEN skipTargetTrue
    ELSE IF EqualFold(TrimSpace(status), <<"false">>) THEN skipTargetFalse
    ELSE skipTargetBoth

\* Mutant of matcherExists: no matcher is ever found.
matcherNeverExists(matchers, candidate) == FALSE

matcherExists(matchers, candidate) ==
    \E i \in 1..Len(matchers) :
        /\ matchers[i].Type = candidate.Type
        /\ matchers[i].Reason = candidate.Reason
        /\ matchers[i].Message = candidate.Message

\* ensureResourceConfig: the first resource of that name, whatever its group,
\* gets the group when it has none; without such a resource one is appended.
\* The result is the config and the position of the resource.
ensureResourceConfig(c, group, resource) ==
    IF \E i \in 1..Len(c.Resources) : c.Resources[i].Name = resource
    THEN LET i == CHOOSE k \in 1..Len(c.Resources) :
                      /\ c.Resources[k].Name = resource
                      /\ \A l \in 1..(k - 1) : c.Resources[l].Name # resource
         IN  [config |-> IF c.Resources[i].ResourceGroup = <<>> /\ group # <<>>
                         THEN [c EXCEPT !.Resources[i].ResourceGroup = group]
                         ELSE c,
              index |-> i]
    ELSE [config |-> [c EXCEPT !.Resources =
                          Append(@, ResourceConfig(group, resource, <<>>, <<>>))],
          index |-> Len(c.Resources) + 1]

\* marshalMatchers: type and reason of every matcher are written
marshalMatchers(matchers) ==
    [i \in 1..Len(matchers) |->
        ConditionMatcher(matchers[i].Type, <<>>,
                         IF TrimSpace(matchers[i].Reason) # <<>> THEN matchers[i].Reason
                         ELSE <<>>,
                         <<>>)]

\* save: the file that holds the resources of the config
save(c) ==
    [kind |-> "yaml",
     resources |-> [i \in 1..Len(c.Resources) |->
                       [resourceGroup |-> c.Resources[i].ResourceGroup,
                        group |-> <<>>,
                        name |-> c.Resources[i].Name,
                        skipIfTrue |-> marshalMatchers(c.Resources[i].SkipIfTrue),
                        skipIfFalse |-> marshalMatchers(c.Resources[i].SkipIfFalse)]]]

\* The key addLegacyIgnore files a group under
groupKey(group) == IF TrimSpace(group) = <<>> THEN <<"core">> ELSE group

\* addLegacyIgnore once the resource e = [config, index] is there: the entry
\* is appended to the lists the status selects unless they hold it, and then
\* added to the tree and saved. saveOk: the file could be written.
appendLegacyEntry(e, entry, target, group, resource, cType, cStatus, cReason, cMessage, saveOk) ==
    LET res == e.config.Resources[e.index]
        toTrue == /\ target \in {skipTargetTrue, skipTargetBoth}
                  /\ ~matcherExists(res.SkipIfTrue, entry)
        toFalse == /\ target \in {skipTargetFalse, skipTargetBoth}
                   /\ ~matcherExists(res.SkipIfFalse, entry)
    IN  IF ~(toTrue \/ toFalse)
        THEN [added |-> FALSE, err |-> "none", config |-> e.config, saved |-> FALSE]
        ELSE [added |-> TRUE,
              err |-> IF saveOk THEN "none" ELSE "save failed",
              config |-> AddRegex(
                  [e.config EXCEPT
                      !.Resources[e.index].SkipIfTrue =
                          IF toTrue THEN Append(@, entry) ELSE @,
                      !.Resources[e.index].SkipIfFalse =
                          IF toFalse THEN Append(@, entry) ELSE @],
                  groupKey(group), resource, cType, wildcardOr(cStatus),
                  wildcardOr(cReason), wildcardOr(cMessage)),
              saved |-> saveOk]

\* addLegacyIgnore: [added, err, config, saved]
addLegacyIgnore(c, group, resource, cType, cStatus, cReason, cMessage, saveOk) ==
    IF c.path = <<>>
    THEN [added |-> FALSE, err |-> "config path not set", config |-> c, saved |-> FALSE]
    ELSE appendLegacyEntry(
             ensureResourceConfig(c, groupKey(group), resource),
             ConditionMatcher(cType, <<>>,
                              IF cReason # <<>> /\ cReason # <<"*">> THEN cReason ELSE <<>>,
                              IF cMessage # <<>> /\ cMessage # <<"*">> THEN cMessage ELSE <<>>),
             determineSkipTarget(cStatus),
             group, resource, cType, cStatus, cReason, cMessage, saveOk)

(***************************************************************************)
(* The start of the process: rootCmd.Execute runs PersistentPreRunE and    *)
(* then the Run function of the subcommand.                                *)
(***************************************************************************)
\* --mode values (CHECK_CONDITIONS_MODE and the legacy variable unset)
ModeFlags == {"", "only-new", "Only-Old", "old-compare-new", "new-compare-old", "bogus"}

\* strings.ToLower on the --mode values of the model
ToLower(m) == IF m = "Only-Old" THEN "only-old" ELSE m

validModes == {"only-old", "only-new", "old-compare-new", "new-compare-old"}

ModeOf(modeFlag) == IF modeFlag # "" THEN ToLower(modeFlag) ELSE "only-old"

\* Config files: a `resources` entry is [resourceGroup, group, name,
\* skipIfTrue, skipIfFalse].
Payload(resourceGroup, group, name, skipIfTrue, skipIfFalse) ==
    [resourceGroup |-> resourceGroup, group |-> group, name |-> name,
     skipIfTrue |-> skipIfTrue, skipIfFalse |-> skipIfFalse]

Yaml(resources) == [kind |-> "yaml", resources |-> resources]

ProgressingMatcher == ConditionMatcher(<<"Progressing">>, <<>>, <<>>, <<>>)

DeploymentsPayload ==
    Payload(<<"apps">>, <<>>, <<"deployments">>, <<ProgressingMatcher>>, <<>>)

ValidFiles ==
    { NoFile,
      Yaml(<<>>),
      Yaml(<<DeploymentsPayload>>),
      Yaml(<<Payload(<<>>, <<"core">>, <<"pods">>, <<>>,
                     <<ConditionMatcher(<<"Ready">>, <<>>, <<"Pod", "Completed">>, <<>>)>>)>>),
      \* a pattern with characters that are special in a regular expression
      Yaml(<<Payload(<<"apps">>, <<>>, <<"deployments">>,
                     <<ConditionMatcher(<<"Progressing">>, <<>>, <<>>, <<"(", "[">>)>>, <<>>)>>) }

MalformedFiles ==
    { [kind |-> "unparseable", resources |-> <<>>],
      \* a resource without group
      Yaml(<<Payload(<<>>, <<>>, <<"deployments">>, <<ProgressingMatcher>>, <<>>)>>),
      Yaml(<<Payload(<<" ">>, <<>>, <<"deployments">>, <<>>, <<>>)>>),
      Yaml(<<DeploymentsPayload, Payload(<<>>, <<>>, <<"pods">>, <<>>, <<>>)>>),
      \* a matcher without type
      Yaml(<<Payload(<<"apps">>, <<>>, <<"deployments">>, <<>>,
                     <<ConditionMatcher(<<>>, <<>>, <<"R">>, <<>>)>>)>>),
      \* a matcher that sets status
      Yaml(<<Payload(<<"apps">>, <<>>, <<"deployments">>,
                     <<ConditionMatcher(<<"Progressing">>, <<"True">>, <<>>, <<>>)>>, <<>>)>>),
      Yaml(<<DeploymentsPayload,
             Payload(<<"apps">>, <<>>, <<"statefulsets">>, <<>>,
                     <<ConditionMatcher(<<"Ready">>, <<"False">>, <<>>, <<>>)>>)>>) }

ConfigFiles == ValidFiles \cup MalformedFiles \cup {[kind |-> "unreadable", resources |-> <<>>]}

\* The path of the config file, found by ConfigPath or made by EnsureConfigPath
ConfigFilePath == <<"check-conditions.yaml">>

\* LoadConfig: ConfigPath, then LoadConfigFromPath when a path was found; no
\* config and no path are returned with an error or without file.
LoadConfig(file) ==
    IF file.kind = "missing" THEN [err |-> "none", config |-> EmptyConfig]
    ELSE LoadConfigFromPath(file, ConfigFilePath)

\* PersistentPreRunE: the mode is set and validated, the config is loaded;
\* an invalid mode and a config that does not load are returned as errors to
\* Execute. Without config file the Config is empty and has a path only when
\* --auto-add-from-legacy-config made one.
PersistentPreRunE ==
    /\ mainPc = "preRun"
    /\ \E modeFlag \in ModeFlags, autoAdd \in BOOLEAN :
       \E loaded \in {LoadConfig(configFile)} :
          IF ModeOf(modeFlag) \notin validModes
          THEN /\ fatal' = "invalid mode"
               /\ mainPc' = "execute"
               /\ UNCHANGED <<settings, config, startConfig>>
          ELSE IF loaded.err # "none"
          THEN /\ fatal' = loaded.err
               /\ mainPc' = "execute"
               /\ settings' = [settings EXCEPT !.Mode = ModeOf(modeFlag)]
               /\ UNCHANGED <<config, startConfig>>
          ELSE /\ fatal' = fatal
               /\ mainPc' = "run"
               /\ settings' = [Mode |-> ModeOf(modeFlag),
                               AutoAddFromLegacyConfig |-> autoAdd]
               /\ config' = [loaded.config EXCEPT
                                !.path = IF autoAdd /\ @ = <<>> THEN ConfigFilePath ELSE @]
               /\ startConfig' = config'
    /\ UNCHANGED <<arguments, cluster, nextJob, jobsClosed, resultsClosed, wg,
                   work, aggPc, aggResult, counter, stdout, summary, checkAgain,
                   timeoutElapsed, crashed, exitCode, inserted, verdicts,
                   configFile, stderr, lastCall, tally>>

\* Execute: `if err := rootCmd.Execute(); err != nil { os.Exit(1) }`
Execute ==
    /\ mainPc = "execute"
    /\ exitCode' = 1
    /\ mainPc' = "stopped"
    /\ UNCHANGED <<arguments, cluster, nextJob, jobsClosed, resultsClosed, wg,
                   work, aggPc, aggResult, counter, stdout, summary, checkAgain,
                   timeoutElapsed, crashed, fatal, config, inserted, verdicts, settings,
                   configFile, stderr, lastCall, startConfig, tally>>

\* Run of the subcommand up to the first cycle: regexp.Compile of the user
\* pattern (while, waitfor) and the set-up of the clients exit with 3 on error.
Run ==
    /\ mainPc = "run"
    /\ \E patternCompiles, clusterReachable \in BOOLEAN :
          IF arguments.command \in {"while", "waitfor"} /\ ~patternCompiles
          THEN fatal' = "invalid pattern" /\ exitCode' = 3 /\ mainPc' = "stopped"
          ELSE IF ~clusterReachable
          THEN fatal' = "cluster unreachable" /\ exitCode' = 3 /\ mainPc' = "stopped"
          ELSE fatal' = fatal /\ exitCode' = exitCode /\ mainPc' = "start"
    /\ UNCHANGED <<arguments, cluster, nextJob, jobsClosed, resultsClosed, wg,
                   work, aggPc, aggResult, counter, stdout, summary, checkAgain,
                   timeoutElapsed, crashed, config, inserted, verdicts, settings,
                   configFile, stderr, lastCall, startConfig, tally>>

\* The files of the specification of the whole process
ProcessFiles ==
    { NoFile, [kind |-> "unparseable", resources |-> <<>>] }

InitProcess ==
    \E a \in ArgsSet, c \in Clusters, file \in ProcessFiles :
        InitState(a, c, "preRun", DefaultSettings, file, EmptyConfig)

NextProcess ==
    \/ PersistentPreRunE
    \/ Execute
    \/ Run
    \/ Next

Process == InitProcess /\ [][NextProcess]_vars

\* The start of `check-conditions all` with every config file of the model
InitStartup ==
    \E c \in Clusters, file \in ConfigFiles :
        InitState(ArgsOf("all", NoRegex), c, "preRun", DefaultSettings, file, EmptyConfig)

\* `all` runs one cycle: there is no Sleep
NextStartup ==
    \/ PersistentPreRunE
    \/ Execute
    \/ Run
    \/ StartCycle
    \/ SendJob
    \/ CloseJobs
    \/ WaitAndCloseResults
    \/ PrintChecked
    \/ ReturnCheckAgain
    \/ \E j \in Jobs : HandleResourceType(j)
    \/ \E j \in Jobs : SendResult(j)
    \/ WorkerExit
    \/ AggregatorAdd
    \/ AggregatorExit
    \/ Decide

Startup == InitStartup /\ [][NextStartup]_vars

(***************************************************************************)
(* The legacy classifier on one object: printResources on a list of one    *)
(* object, for the condition entries below.                                *)
(***************************************************************************)
ClassifierResources == {<<"pods">>, <<"nodes">>, <<"machinesets">>, <<"volumes">>}

ClassifierTypes ==
    {toSkip[i] : i \in 1..Len(toSkip)} \cup
    { <<"Ready">>, <<"Kube", "Ready">>, <<"Healthy">>, <<"Memory", "Pressure">>,
      <<"Frequent", "Container", "Restart">>, <<"Container", "Restart">>,
      <<"Specific">>, <<"Schedulable">>, <<"Kernel", "Deadlock">>,
      <<"Machines", "Ready">>, <<"Scheduled">> }

Statuses == {"True", "False", "Unknown"}

ClassifierReasons ==
    { <<>>, <<"Pod", "Completed">>, <<"Deleted">>, <<"Deleted", " ", "@", "n1">>,
      <<"CrashLoop">> }

ClassifierMessages == { <<>>, <<"boom">> }

\* objects with one condition entry
SingleEntryObjects ==
    { Object("o", List(<< Condition(ct, cs, r, m) >>)) :
        ct \in ClassifierTypes, cs \in Statuses,
        r \in ClassifierReasons, m \in ClassifierMessages }

\* The entries of the objects with several conditions: Ready, a type without
\* meaning and a type with negative meaning. The types of the conditions of
\* one object are distinct (conditions are keyed by type).
SiblingEntries(ct) ==
    { Condition(ct, cs, r, m) :
        cs \in {"False", "Unknown"}, r \in { <<"R">>, <<"Q">> }, m \in { <<"M">>, <<>> } }

SeveralEntriesObjects ==
    { Object("o", List(<<a, b>>)) :
        a \in SiblingEntries(<<"Ready">>),
        b \in SiblingEntries(<<"Specific">>) \cup SiblingEntries(<<"Memory", "Pressure">>) }
    \cup
    { Object("o", List(<<b, a>>)) :
        a \in SiblingEntries(<<"Ready">>),
        b \in SiblingEntries(<<"Specific">>) \cup SiblingEntries(<<"Memory", "Pressure">>) }
    \cup
    { Object("o", List(<<a, b, c>>)) :
        a \in SiblingEntries(<<"Ready">>),
        b \in SiblingEntries(<<"Specific">>),
        c \in SiblingEntries(<<"Memory", "Pressure">>) }

\* Objects with an entry that is no key/value map before, after and between
\* well-formed entries
MalformedEntryObjects ==
    { Object("o", List(<<NotAMap, a>>)) : a \in SiblingEntries(<<"Ready">>) }
    \cup { Object("o", List(<<a, NotAMap>>)) : a \in SiblingEntries(<<"Specific">>) }
    \cup { Object("o", List(<<a, NotAMap, b>>)) :
               a \in SiblingEntries(<<"Ready">>), b \in SiblingEntries(<<"Specific">>) }

ClassifierJobs ==
    { Job("", res, "ok", <<obj>>) : res \in ClassifierResources, obj \in SingleEntryObjects }
    \cup { Job("", <<"pods">>, "ok", <<obj>>) :
               obj \in SeveralEntriesObjects \cup MalformedEntryObjects }

\* A worker holds the job and runs handleResourceType on it.
ClassifyObject ==
    /\ mainPc = "classify"
    /\ LET r == handleResourceType(arguments, cluster[1])
       IN  /\ stdout' = r.lines
           /\ crashed' = r.panicked
           /\ work' = [work EXCEPT ![1] = [pc |-> "send", output |-> r.out]]
    /\ mainPc' = "classified"
    /\ UNCHANGED outsideCycle
    /\ tally' = [tally EXCEPT !.lists[1] = IF issuesListCall(cluster[1]) THEN @ + 1 ELSE @]
    /\ UNCHANGED <<arguments, cluster, nextJob, jobsClosed, resultsClosed, wg,
                   aggPc, aggResult, counter, summary, checkAgain,
                   timeoutElapsed, exitCode>>

InitClassifier ==
    \E job \in ClassifierJobs : InitAt(ArgsOf("all", NoRegex), <<job>>, "classify")

Classifier == InitClassifier /\ [][ClassifyObject]_vars

(***************************************************************************)
(* The rule set of the configuration: AddRegex builds a tree of nodes,     *)
(* group -> resource -> type -> status -> reason -> message, every node    *)
(* keyed by the text of its pattern and holding the compiled pattern;      *)
(* shouldSkip walks the tree. A Go map is walked in an order that changes  *)
(* from walk to walk.                                                      *)
(***************************************************************************)
MaxRules == 2

MaxQueries == 3

\* The patterns and the values of the attributes
StatusPatterns == {<<"True">>, <<"False">>, <<"*">>}

ReasonMessagePatterns ==
    { <<(<<"*">>), (<<"*">>)>>, <<(<<"R">>), (<<"boom">>)>>, <<(<<"R">>), (<<>>)>> }

RuleSet ==
    { Rule(<<"apps">>, <<"deployments">>, <<"Progressing">>, s, rm[1], rm[2]) :
          s \in StatusPatterns, rm \in ReasonMessagePatterns }
    \cup { Rule(<<"*">>, <<"deployments">>, <<"*">>, <<"False">>, <<"Q">>, <<"line", "*">>) }

Queries ==
    { Rule(<<"apps">>, <<"deployments">>, <<"Progressing">>, s, <<"R">>, m) :
          s \in {"True", "False"},
          m \in { <<>>, <<"boom">>, <<"line", "\n", "line">> } }
    \cup { Rule(<<"apps">>, <<"deployments">>, <<"Progressing">>, s, <<>>, <<>>) :
               s \in {"True", "False"} }

\* Two walks that visit every two keys in both relative orders
PatternOrder ==
    << <<"*">>, <<"apps">>, <<"deployments">>, <<"Progressing">>, <<"True">>,
       <<"False">>, <<"R">>, <<"Q">>, <<"boom">>, <<>>, <<"line", "*">> >>

Reverse(seq) == [i \in 1..Len(seq) |-> seq[Len(seq) + 1 - i]]

Orders == {PatternOrder, Reverse(PatternOrder)}

\* A rule is added to the rule set.
AddRegexCall ==
    /\ mainPc = "config"
    /\ Cardinality(inserted) < MaxRules
    /\ \E rule \in RuleSet \ inserted :
          /\ config' = AddRegex(config, rule.group, rule.resource, rule.cType,
                                rule.cStatus, rule.cReason, rule.cMessage)
          /\ inserted' = inserted \cup {rule}
    /\ verdicts' = <<>>
    /\ UNCHANGED <<arguments, cluster, mainPc, nextJob, jobsClosed, resultsClosed, wg,
                   work, aggPc, aggResult, counter, stdout, summary, checkAgain,
                   timeoutElapsed, crashed, exitCode, fatal, settings, configFile,
                   stderr, lastCall, startConfig, tally>>

\* An entry is classified against the rule set.
ShouldSkipCall ==
    /\ mainPc = "config"
    /\ Len(verdicts) < MaxQueries
    /\ \E q \in Queries, order \in Orders :
          verdicts' = Append(verdicts, [q |-> q, skip |-> shouldSkip(config, order, q)])
    /\ UNCHANGED <<arguments, cluster, mainPc, nextJob, jobsClosed, resultsClosed, wg,
                   work, aggPc, aggResult, counter, stdout, summary, checkAgain,
                   timeoutElapsed, crashed, exitCode, fatal, config, inserted,
                   settings, configFile, stderr, lastCall, startConfig, tally>>

InitRules == InitAt(ArgsOf("all", NoRegex), <<>>, "config")

NextRules == AddRegexCall \/ ShouldSkipCall

Rules == InitRules /\ [][NextRules]_vars

(***************************************************************************)
(* Entries that the legacy logic ignores are added to the configuration:   *)
(* addLegacyIgnore appends a matcher to the resource, adds the tuple to    *)
(* the tree and saves the file; shouldSkip is then asked about the tuple   *)
(* of the last call.                                                       *)
(***************************************************************************)
MaxCalls == 2

LegacyQueries ==
    { Rule(g, <<"pods">>, <<"Ready">>, cs, <<"R">>, m) :
          g \in { <<>>, <<"apps">> },
          cs \in {"False", "Unknown"},
          m \in { <<>>, <<"line", "\n", "line">> } }
    \cup { Rule(<<>>, <<"deployments">>, <<"Progressing">>, "True", <<>>, <<>>),
           Rule(<<"apps">>, <<"deployments">>, <<"Progressing">>, "False", <<"*">>, <<>>) }

LegacyPatternOrder ==
    << <<"core">>, <<"apps">>, <<"pods">>, <<"deployments">>, <<"Ready">>,
       <<"Progressing">>, <<"True">>, <<"False">>, <<"Unknown">>, <<"R">>, <<"*">>,
       <<"line", "\n", "line">> >>

LegacyOrders == {LegacyPatternOrder, Reverse(LegacyPatternOrder)}

\* The Config when the classification starts: the loaded file, or no file,
\* and then a path only when EnsureConfigPath made one
LegacyConfigs ==
    { [EmptyConfig EXCEPT !.path = path] : path \in { <<>>, ConfigFilePath } }
    \cup { LoadConfig(Yaml(<<DeploymentsPayload>>)).config }

\* addLegacyIgnore is called for an entry.
AddLegacyIgnoreCall ==
    /\ mainPc = "config"
    /\ lastCall.n < MaxCalls
    /\ \E q \in LegacyQueries, saveOk \in BOOLEAN :
       \E r \in { addLegacyIgnore(config, q.group, q.resource, q.cType, <<q.cStatus>>,
                                  q.cReason, q.cMessage, saveOk) } :
          /\ config' = r.config
          /\ configFile' = IF r.saved THEN save(r.config) ELSE configFile
          /\ lastCall' = [n |-> lastCall.n + 1, q |-> q, added |-> r.added,
                          err |-> r.err, seen |-> lastCall.seen \cup {q}]
    /\ verdicts' = <<>>
    /\ UNCHANGED <<arguments, cluster, mainPc, nextJob, jobsClosed, resultsClosed, wg,
                   work, aggPc, aggResult, counter, stdout, summary, checkAgain,
                   timeoutElapsed, crashed, exitCode, fatal, inserted, settings,
                   stderr, startConfig, tally>>

\* shouldSkip is called with the values of the last addLegacyIgnore call.
ShouldSkipSameValues ==
    /\ mainPc = "config"
    /\ lastCall.n > 0
    /\ Len(verdicts) < MaxQueries
    /\ \E order \in LegacyOrders :
          verdicts' = Append(verdicts, [q |-> lastCall.q,
                                        skip |-> shouldSkip(config, order, lastCall.q)])
    /\ UNCHANGED <<arguments, cluster, mainPc, nextJob, jobsClosed, resultsClosed, wg,
                   work, aggPc, aggResult, counter, stdout, summary, checkAgain,
                   timeoutElapsed, crashed, exitCode, fatal, config, inserted,
                   settings, configFile, stderr, lastCall, startConfig, tally>>

InitLegacyIgnore ==
    \E cfg \in LegacyConfigs :
        InitState(ArgsOf("all", NoRegex), <<>>, "config",
                  [DefaultSettings EXCEPT !.AutoAddFromLegacyConfig = TRUE],
                  IF cfg.Resources = <<>> THEN NoFile ELSE Yaml(<<DeploymentsPayload>>),
                  cfg)

NextLegacyIgnore == AddLegacyIgnoreCall \/ ShouldSkipSameValues

LegacyIgnore == InitLegacyIgnore /\ [][NextLegacyIgnore]_vars

(***************************************************************************)
(* One call of the `all` subcommand with --timeout set, in a cluster whose *)
(* list calls may hang, under the fairness of the Go scheduler: a          *)
(* goroutine that can run does run.                                        *)
(***************************************************************************)
\* The deadline of --timeout passes. Nothing in the cycle watches it: the
\* list calls run with context.TODO().
TimeoutElapses ==
    /\ ~crashed
    /\ arguments.Timeout > 0
    /\ ~timeoutElapsed
    /\ mainPc \notin {"start", "stopped"}
    /\ timeoutElapsed' = TRUE
    /\ UNCHANGED outsideCycle
    /\ UNCHANGED tally
    /\ UNCHANGED <<arguments, cluster, mainPc, nextJob, jobsClosed, resultsClosed, wg,
                   work, aggPc, aggResult, counter, stdout, summary, checkAgain,
                   crashed, exitCode>>

InitCycle ==
    \E c \in ClustersWithHang : InitWith(WithTimeout(ArgsOf("all", NoRegex)), c)

MainStep ==
    \/ StartCycle
    \/ SendJob
    \/ CloseJobs
    \/ WaitAndCloseResults
    \/ PrintChecked
    \/ ReturnCheckAgain
    \/ Decide

WorkerStep ==
    \/ \E j \in Jobs : HandleResourceType(j)
    \/ \E j \in Jobs : SendResult(j)
    \/ WorkerExit

AggregatorStep ==
    \/ AggregatorAdd
    \/ AggregatorExit

NextCycle ==
    \/ MainStep
    \/ WorkerStep
    \/ AggregatorStep
    \/ TimeoutElapses

FairCycle ==
    /\ InitCycle
    /\ [][NextCycle]_vars
    /\ WF_vars(MainStep)
    /\ WF_vars(WorkerStep)
    /\ WF_vars(AggregatorStep)


(***************************************************************************)
(* One call of the `all` subcommand in a cluster with irregular content:   *)
(* malformed conditions, subresources, resources of the deny-list.         *)
(***************************************************************************)
InitIrregular ==
    \E c \in IrregularClusters : InitWith(ArgsOf("all", NoRegex), c)

NextIrregular ==
    \/ MainStep
    \/ WorkerStep
    \/ AggregatorStep

FairIrregularCycle ==
    /\ InitIrregular
    /\ [][NextIrregular]_vars
    /\ WF_vars(MainStep)
    /\ WF_vars(WorkerStep)
    /\ WF_vars(AggregatorStep)

(***************************************************************************)
(* What a cycle is expected to deliver.                                    *)
(***************************************************************************)
RECURSIVE SumOver(_, _)
SumOver(f, n) == IF n = 0 THEN 0 ELSE f[n] + SumOver(f, n - 1)

\* The sums of the per-job outputs of all jobs of the cycle.
SumsOfOutputs ==
    [conditions |-> SumOver([j \in Jobs |-> work[j].output.checkedConditions], Len(cluster)),
     resources |-> SumOver([j \in Jobs |-> work[j].output.checkedResources], Len(cluster)),
     types |-> SumOver([j \in Jobs |-> work[j].output.checkedResourceTypes], Len(cluster))]

\* The cycle function has returned to the controller.
CycleReturned == mainPc \in {"decide", "sleep", "stopped"}

\* The summary line has been printed.
SummaryPrinted == mainPc = "return" \/ CycleReturned

\* The verdict the reported lines of the cycle call for: a line matches the
\* pattern (while, waitfor), a line was reported (all).
VerdictOfLines(lines) ==
    \/ /\ arguments.WhileRegex.set
       /\ \E l \in lines : MatchString(arguments.WhileRegex.re, l)
    \/ reportedVerdict(arguments, lines)

(***************************************************************************)
(* C1: when the cycle summary is produced, the counters equal the sums of  *)
(* the per-job outputs of all jobs of that cycle, under every interleaving *)
(* of job producer, workers and aggregator.                                *)
(***************************************************************************)
C1_SummaryEqualsSums == SummaryPrinted => summary = SumsOfOutputs

(***************************************************************************)
(* C2: the cycle counters are written through one path only: a step that   *)
(* changes the Counter is a statement of Counter.add executed by the       *)
(* aggregator (or the creation of the fresh Counter of a cycle), and a     *)
(* step that changes the output of a job is the step of the one worker     *)
(* that holds this job.                                                    *)
(***************************************************************************)
C2_AggregatorAddStep ==
    /\ aggPc \in {"addResources", "addConditions", "addTypes", "addAgain"}
    /\ aggPc' = AddNextPc(aggPc)
    /\ counter' = CounterAdd(counter, aggResult, aggPc)

C2_FreshCounter == mainPc \in {"start", "sleep"} /\ counter' = ZeroCounter

C2_WorkerWritesOwnOutput ==
    \A j \in Jobs :
        (j \in DOMAIN work' /\ work'[j].output # work[j].output) =>
            \/ /\ work[j].pc = "handle" /\ work'[j].pc = "send"
               /\ \A k \in Jobs \ {j} : work'[k] = work[k]
            \/ mainPc \in {"start", "sleep"}

C2_SingleWriter ==
    [][/\ (counter' # counter) => (C2_AggregatorAddStep \/ C2_FreshCounter)
       /\ C2_WorkerWritesOwnOutput]_vars

C2_Witness ==
    /\ counter.checkedResources > 0
    /\ \E j \in Jobs : work[j].pc = "send" /\ work[j].output.checkedResources > 0

(***************************************************************************)
(* C3: the verdict of a cycle returned to the poll controller depends only *)
(* on the set of reported lines: it is the verdict of that set, whatever   *)
(* the job order and the interleaving of workers and aggregator.           *)
(***************************************************************************)
C3_VerdictFromLines == CycleReturned => (checkAgain = VerdictOfLines(stdout))


(***************************************************************************)
(* C4: `while <regex>`: after each cycle the controller stops iff no       *)
(* reported line of that cycle matches the pattern, and sleeps to run      *)
(* another cycle iff at least one does. (With `.`: it stops on the first   *)
(* cycle that reports no line.)                                            *)
(***************************************************************************)
SomeLineMatches(re) == \E l \in stdout : MatchString(re.re, l)

C4_WhileStopsIffNoMatch ==
    arguments.command = "while" =>
        /\ (mainPc = "stopped") => ~SomeLineMatches(arguments.WhileRegex)
        /\ (mainPc = "sleep") => SomeLineMatches(arguments.WhileRegex)

(***************************************************************************)
(* C5: `waitfor <regex>`: after each cycle the controller stops iff some   *)
(* reported line of that cycle matches the pattern, and sleeps to run      *)
(* another cycle iff none does. (With `.`: it stops on the first cycle     *)
(* that reports a line.)                                                   *)
(***************************************************************************)
C5_WaitForStopsIffMatch ==
    arguments.command = "waitfor" =>
        /\ (mainPc = "stopped") => SomeLineMatches(arguments.Regex)
        /\ (mainPc = "sleep") => ~SomeLineMatches(arguments.Regex)

(***************************************************************************)
(* C6: `all` runs exactly one cycle and stops without sleeping, and the    *)
(* caller is told unhealthy (exit status 1) iff a line was reported in     *)
(* that cycle.                                                             *)
(***************************************************************************)
C6_SingleRunUnhealthyIffReported ==
    arguments.command = "all" =>
        /\ mainPc # "sleep"
        /\ (mainPc = "stopped") => ((exitCode = 1) <=> (stdout # {}))

(***************************************************************************)
(* C7: `forever` has no terminal state: the controller never stops, and    *)
(* after every cycle, whatever it reported, it sleeps and then starts      *)
(* another cycle.                                                          *)
(***************************************************************************)
C7_ForeverNeverStops ==
    [][arguments.command = "forever" =>
          /\ mainPc' # "stopped"
          /\ exitCode' = -1
          /\ (mainPc = "decide" /\ mainPc' # mainPc) => mainPc' = "sleep"
          /\ (mainPc = "sleep" /\ mainPc' # mainPc) => mainPc' = "start"]_vars

\* forever has decided to go on after a cycle that reported nothing
C7_Witness ==
    /\ arguments.command = "forever"
    /\ mainPc = "sleep"
    /\ stdout = {}
    /\ summary.types > 0

(***************************************************************************)
(* C8: a scan cycle over any finite set of resource types and objects      *)
(* (objects without conditions included) terminates provided every list    *)
(* call returns: all jobs are consumed, all 10 workers exit, the result    *)
(* queue is closed and the cycle function returns.                         *)
(***************************************************************************)
ListHangs(job) == issuesListCall(job) /\ job.list = "hang"

NoHang == \A j \in Jobs : ~ListHangs(cluster[j])

CycleDone ==
    /\ CycleReturned
    /\ \A j \in Jobs : work[j].pc = "sent"
    /\ wg = 0
    /\ jobsClosed
    /\ resultsClosed

C9_TimeoutBoundsCycle == timeoutElapsed ~> CycleReturned

(***************************************************************************)
(* C10: when the list call of a resource type fails, only that job is      *)
(* abandoned: it contributes no objects, conditions or report lines and    *)
(* nothing panics; every other job is processed in full, its result is     *)
(* handed to the aggregator and merged into the Counter, and the cycle     *)
(* completes with its summary.                                             *)
(***************************************************************************)
ListFails(job) == issuesListCall(job) /\ job.list = "err"

\* The lines the job would report had its list call succeeded.
LinesIfListed(job) == handled[arguments, [job EXCEPT !.list = "ok"]].lines

FailedJobContained ==
    /\ ~crashed
    /\ \A j \in Jobs :
          (ListFails(cluster[j]) /\ work[j].pc \in {"send", "sent"}) =>
              /\ work[j].output.checkedResources = 0
              /\ work[j].output.checkedConditions = 0
              /\ ~work[j].output.checkAgain
              /\ LinesIfListed(cluster[j]) \cap stdout = {}

OtherJobsProcessed ==
    \A k \in Jobs :
        ~ListFails(cluster[k]) =>
            /\ work[k].pc = "sent"
            /\ work[k].output = handled[arguments, cluster[k]].out
            /\ handled[arguments, cluster[k]].lines \subseteq stdout

AllMerged ==
    (aggPc = "exited") =>
        /\ counter.checkedConditions = SumsOfOutputs.conditions
        /\ counter.checkedResources = SumsOfOutputs.resources
        /\ counter.checkedResourceTypes = SumsOfOutputs.types

SomeListFails == \E j \in Jobs : ListFails(cluster[j])

C10_FailedListAbandonsOnlyItsJob ==
    /\ [](FailedJobContained /\ AllMerged)
    /\ (mainPc = "start" /\ SomeListFails /\ NoHang) ~>
           (CycleReturned /\ OtherJobsProcessed /\ summary.types >= 0)

\* a cycle with a failed list call and a job that reported a line is done
C10_Witness ==
    /\ SomeListFails
    /\ CycleDone
    /\ aggPc = "exited"
    /\ stdout # {}
    /\ \E j \in Jobs : ListFails(cluster[j]) /\ LinesIfListed(cluster[j]) # {}


(***************************************************************************)
(* C11: no error confined to one object or one resource type terminates    *)
(* the process or the cycle: when the value at an object's conditions path *)
(* is not a list, or an entry is not a map, nothing panics, the remaining  *)
(* jobs are still processed and the cycle summary is still produced.       *)
(***************************************************************************)
C11_ObjectErrorsContained ==
    /\ [](~crashed)
    /\ (mainPc = "start") ~>
           (SummaryPrinted /\ \A j \in Jobs : work[j].pc = "sent")


(***************************************************************************)
(* C12: every resource name that contains "/" anywhere and every name of   *)
(* the deny-list produces no list call and is not counted as a scanned     *)
(* resource type; every other job issues its one list call and counts one  *)
(* resource type.                                                          *)
(***************************************************************************)
NameHasSlash(name) == \E i \in 1..Len(name) : name[i] = "/"

ToBeDropped(job) ==
    NameHasSlash(job.gvr.Resource) \/ SeqContains(resourcesToSkip, job.gvr.Resource)

C12_EnumerationFilter ==
    \A j \in Jobs :
        work[j].pc \in {"send", "sent"} =>
            /\ issuesListCall(cluster[j]) <=> ~ToBeDropped(cluster[j])
            /\ work[j].output.checkedResourceTypes =
                   IF ToBeDropped(cluster[j]) THEN 0 ELSE 1


(***************************************************************************)
(* C13: every fatal error (cluster unreachable, invalid user pattern,      *)
(* invalid mode, malformed rule configuration) ends the process with a     *)
(* failure status that differs from the status `all` returns when a line   *)
(* was reported.                                                           *)
(***************************************************************************)
C13_FatalSignalDistinct ==
    (fatal # "none" /\ mainPc = "stopped") =>
        /\ exitCode # 0
        /\ exitCode # exitCodeAll(TRUE)


(***************************************************************************)
(* The classification of an entry under the four modes. only-old: the      *)
(* legacy logic alone; only-new: the config alone, the legacy logic is not *)
(* used; old-compare-new and new-compare-old: the legacy logic, or the     *)
(* config, decides, the other one is evaluated as well and a WARNING goes  *)
(* to stderr when the two differ. With --auto-add-from-legacy-config an    *)
(* entry that the legacy logic ignores is appended to the config.          *)
(***************************************************************************)
ModeOnlyOld == "only-old"

ModeOnlyNew == "only-new"

ModeOldCompareNew == "old-compare-new"

ModeNewCompareOld == "new-compare-old"

\* The legacy logic on one entry: the steps of handleCondition
skipConditionLegacy(resource, e) ==
    handleCondition(e, [checkedConditions |-> 0, rows |-> <<>>], resource).rows = <<>>

\* The config on one entry
skipConditionViaConfig(c, order, group, resource, e) ==
    shouldSkip(c, order, Rule(group, resource, e.type, e.status, e.reason, e.message))

\* The verdict of a classifier as it is recorded: "none" when the mode does
\* not evaluate the classifier
Recorded(evaluated, skips) ==
    IF ~evaluated THEN "none" ELSE IF skips THEN "skip" ELSE "keep"

\* Mutant of skipCondition: an entry is suppressed when either classifier
\* suppresses it.
skipConditionEitherSkips(mode, legacy, viaConfig) ==
    [skip |-> legacy \/ viaConfig,
     legacy |-> Recorded(mode # ModeOnlyNew, legacy),
     viaConfig |-> Recorded(mode # ModeOnlyOld, viaConfig),
     warned |-> /\ mode \in {ModeOldCompareNew, ModeNewCompareOld}
                /\ legacy # viaConfig]

\* The verdict of the mode from the verdicts of the two classifiers: whether
\* the entry is suppressed, what was evaluated, whether a WARNING is written
skipCondition(mode, legacy, viaConfig) ==
    [skip |-> IF mode \in {ModeOnlyOld, ModeOldCompareNew} THEN legacy ELSE viaConfig,
     legacy |-> Recorded(mode # ModeOnlyNew, legacy),
     viaConfig |-> Recorded(mode # ModeOnlyOld, viaConfig),
     warned |-> /\ mode \in {ModeOldCompareNew, ModeNewCompareOld}
                /\ legacy # viaConfig]

\* Whether the entry is appended to the config
autoAdds(s, legacy) == s.AutoAddFromLegacyConfig /\ s.Mode # ModeOnlyNew /\ legacy

\* The entries: [group, resource, name, e], name being that of the object
ModeEntry(group, resource, name, e) ==
    [group |-> group, resource |-> resource, name |-> name, e |-> e]

ModeEntries ==
    { ModeEntry(<<>>, <<"pods">>, "a",
                Condition(<<"Ready">>, "False", <<"Pod", "Completed">>, <<>>)),
      ModeEntry(<<"apps">>, <<"deployments">>, "a",
                Condition(<<"Progressing">>, "True", <<"R">>, <<>>)),
      ModeEntry(<<"apps">>, <<"deployments">>, "a",
                Condition(<<"Available">>, "True", <<"R">>, <<>>)),
      ModeEntry(<<"apps">>, <<"deployments">>, "b",
                Condition(<<"Available">>, "True", <<"R">>, <<>>)),
      ModeEntry(<<>>, <<"pods">>, "a",
                Condition(<<"Specific">>, "False", <<"R">>, <<"boom">>)) }

ModeFiles ==
    { NoFile,
      Yaml(<<DeploymentsPayload>>),
      Yaml(<<Payload(<<>>, <<"core">>, <<"pods">>, <<>>,
                     <<ConditionMatcher(<<"Ready">>, <<>>, <<"Pod", "Completed">>, <<>>),
                       ConditionMatcher(<<"Specific">>, <<>>, <<>>, <<>>)>>)>>) }

ModePatternOrder ==
    << <<>>, <<"core">>, <<"apps">>, <<"pods">>, <<"deployments">>, <<"Ready">>,
       <<"Progressing">>, <<"Available">>, <<"Specific">>, <<"True">>, <<"False">>,
       <<"Pod", "Completed">>, <<"R">>, <<"*">>, <<"boom">> >>

ModeOrders == {ModePatternOrder, Reverse(ModePatternOrder)}

\* The report line of an entry and the WARNING about it
ModeLine(x) ==
    outLine(Object(x.name, List(<<x.e>>)), x.resource,
            conditionRow(x.e.type, x.e.status, x.e.reason, x.e.message))

Warning(x, legacy) ==
    [text |-> IF legacy THEN "WARNING: Legacy skips but config would NOT skip"
              ELSE "WARNING: Legacy does NOT skip but config would skip",
     entry |-> x]

\* One entry is classified: the verdict of the mode, the report line on
\* stdout, the WARNING on stderr, the entry appended to the config.
ClassifyEntry ==
    /\ mainPc = "run"
    /\ Len(verdicts) < MaxQueries
    /\ \E x \in ModeEntries, order \in ModeOrders, saveOk \in BOOLEAN :
       \E legacy \in {skipConditionLegacy(x.resource, x.e)} :
       \E v \in {skipCondition(settings.Mode, legacy,
                               skipConditionViaConfig(config, order, x.group,
                                                      x.resource, x.e))} :
       \E r \in { IF autoAdds(settings, legacy)
                  THEN addLegacyIgnore(config, x.group, x.resource, x.e.type,
                                       <<x.e.status>>, x.e.reason, x.e.message, saveOk)
                  ELSE [added |-> FALSE, err |-> "none", config |-> config,
                        saved |-> FALSE] } :
          /\ verdicts' = Append(verdicts, [q |-> x, skip |-> v.skip, legacy |-> v.legacy,
                                           viaConfig |-> v.viaConfig, warned |-> v.warned])
          /\ stdout' = IF v.skip THEN stdout ELSE stdout \cup {ModeLine(x)}
          /\ stderr' = IF v.warned THEN stderr \cup {Warning(x, legacy)} ELSE stderr
          /\ config' = r.config
          /\ configFile' = IF r.saved THEN save(r.config) ELSE configFile
    /\ counter' = [counter EXCEPT !.checkedConditions = @ + 1]
    /\ UNCHANGED <<arguments, cluster, mainPc, nextJob, jobsClosed, resultsClosed, wg,
                   work, aggPc, aggResult, summary, checkAgain, timeoutElapsed,
                   crashed, exitCode, fatal, inserted, settings, lastCall,
                   startConfig, tally>>

InitModes ==
    \E file \in ModeFiles :
        InitState(ArgsOf("all", NoRegex), <<>>, "preRun", DefaultSettings, file,
                  EmptyConfig)

NextModes == PersistentPreRunE \/ Execute \/ ClassifyEntry

Modes == InitModes /\ [][NextModes]_vars

(***************************************************************************)
(* The object under classification and the report line of an entry.        *)
(***************************************************************************)
Classified == mainPc = "classified"

TheObject == cluster[1].items[1]

Entries == TheObject.status_conditions.items

LineOf(e) ==
    outLine(TheObject, cluster[1].gvr.Resource,
            conditionRow(e.type, e.status, e.reason, e.message))

Reported(e) == LineOf(e) \in stdout

(***************************************************************************)
(* C14: an entry whose type is in the always-skip set (DisruptionAllowed,  *)
(* LoadBalancerAttachedToNetwork, NetworkAttached,                         *)
(* PodReadyToStartContainers) is never reported, for every status, reason, *)
(* message and resource kind.                                              *)
(***************************************************************************)
AlwaysSkipTypes ==
    { <<"Disruption", "Allowed">>, <<"LoadBalancer", "Attached", "To", "Network">>,
      <<"Network", "Attached">>, <<"Pod", "Ready", "To", "Start", "Containers">> }

C14_AlwaysSkipNeverReported ==
    Classified =>
        \A i \in 1..Len(Entries) :
            Entries[i].type \in AlwaysSkipTypes => ~Reported(Entries[i])

C14_Witness ==
    /\ Classified
    /\ Entries = << Condition(<<"Pod", "Ready", "To", "Start", "Containers">>,
                              "False", <<"CrashLoop">>, <<"boom">>) >>
    /\ work[1].output.checkedConditions = 1
    /\ stdout = {}

(***************************************************************************)
(* C15: the legacy classifier against a reference: an entry is reported    *)
(* iff none of the five drop steps applies: always-skip type; type with    *)
(* positive meaning and status True; type with negative meaning and status *)
(* False; an ignore-line regex matches `<resource> <type>=<status>         *)
(* <reason> "<message>"`; expected terminal state (a type and a reason of  *)
(* the terminal tables with status False).                                 *)
(***************************************************************************)
DropStep(resource, e) ==
    \/ e.type \in AlwaysSkipTypes
    \/ e.status = "True" /\ conditionTypeHasPositiveMeaning(resource, e.type)
    \/ e.status = "False" /\ conditionTypeHasNegativeMeaning(resource, e.type)
    \/ \E i \in 1..Len(conditionLinesToIgnoreRegexs) :
          MatchLiteral(conditionLinesToIgnoreRegexs[i],
                       resource \o <<" ">> \o e.type \o <<"=", e.status, " ">>
                           \o e.reason \o <<" ", "\"">> \o e.message \o <<"\"">>)
    \/ /\ SeqContains(doneTypes, e.type)
       /\ SeqContains(doneReasons, e.reason)
       /\ e.status = "False"

C15_ReportedIffNoDropStep ==
    (Classified /\ Len(Entries) = 1) =>
        (Reported(Entries[1]) <=> ~DropStep(cluster[1].gvr.Resource, Entries[1]))

(***************************************************************************)
(* C16: an entry with status False whose type starts with Frequent and     *)
(* ends with Restart is suppressed; type ContainerRestart with status      *)
(* False is reported.                                                      *)
(***************************************************************************)
C16_FrequentRestartPattern ==
    (Classified /\ Len(Entries) = 1 /\ Entries[1].status = "False") =>
        /\ (HasPrefix(Entries[1].type, <<"Frequent">>) /\ HasSuffix(Entries[1].type, <<"Restart">>))
               => ~Reported(Entries[1])
        /\ Entries[1].type = <<"Container", "Restart">> => Reported(Entries[1])

C16_Witness ==
    /\ Classified
    /\ Len(Entries) = 1
    /\ Entries[1].type = <<"Container", "Restart">>
    /\ Entries[1].status = "False"
    /\ stdout = {LineOf(Entries[1])}

(***************************************************************************)
(* C17: Ready-suppression: a surviving entry of type Ready is not printed  *)
(* iff another surviving entry of a different type of the same object has  *)
(* the same (status, reason, message); every surviving entry of another    *)
(* type is printed.                                                        *)
(***************************************************************************)
Survives(e) ==
    handleCondition(e, [checkedConditions |-> 0, rows |-> <<>>],
                    cluster[1].gvr.Resource).rows # <<>>

HasTwin(e) ==
    \E k \in 1..Len(Entries) :
        /\ Survives(Entries[k])
        /\ Entries[k].type # e.type
        /\ Entries[k].status = e.status
        /\ Entries[k].reason = e.reason
        /\ Entries[k].message = e.message

RECURSIVE globMatch(_, _)
globMatch(pattern, str) ==
    IF pattern = <<>> THEN str = <<>>
    ELSE IF Head(pattern) = "*"
         THEN \/ globMatch(Tail(pattern), str)
              \/ str # <<>> /\ globMatch(pattern, Tail(str))
         ELSE /\ str # <<>>
              /\ Head(str) = Head(pattern)
              /\ globMatch(Tail(pattern), Tail(str))

ruleMatches(rule, q) ==
    /\ globMatch(rule.group, q.group)
    /\ globMatch(rule.resource, q.resource)
    /\ globMatch(rule.cType, q.cType)
    /\ globMatch(rule.cStatus, <<q.cStatus>>)
    /\ globMatch(rule.cReason, q.cReason)
    /\ globMatch(rule.cMessage, q.cMessage)

flatScan(rules, q) == \E rule \in rules : ruleMatches(rule, q)

(***************************************************************************)
(* C18: after AddRegex of group apps, resource deployments, type           *)
(* Progressing, status True, reason "*" and message "*" on an empty rule   *)
(* set, shouldSkip(apps, deployments, Progressing, True, r, m) is true for *)
(* every reason r and every message m, the empty message included, and     *)
(* with status False it is false.                                          *)
(***************************************************************************)
ProgressingTrueRule ==
    Rule(<<"apps">>, <<"deployments">>, <<"Progressing">>, <<"True">>, <<"*">>, <<"*">>)

C18_RuleRoundTrip ==
    inserted = {ProgressingTrueRule} =>
        \A i \in 1..Len(verdicts) :
            /\ verdicts[i].q.cStatus = "True" => verdicts[i].skip
            /\ verdicts[i].q.cStatus = "False" => ~verdicts[i].skip

(***************************************************************************)
(* C19: for every sequence of insertions and every query, the verdict of   *)
(* the nested index is that of a flat scan of all inserted rules, each of  *)
(* the six attributes matched against its pattern (anchored, a star        *)
(* matching anything); patterns of different rules are never combined.     *)
(***************************************************************************)
C19_IndexEqualsFlatScan ==
    \A i \in 1..Len(verdicts) :
        verdicts[i].skip = flatScan(inserted, verdicts[i].q)

(***************************************************************************)
(* C20: classifying the same six-tuple twice against the same rule set     *)
(* gives the same verdict, whatever was classified in between and in       *)
(* whatever order the rules are walked.                                    *)
(***************************************************************************)
C20_SameVerdict ==
    \A i, j \in 1..Len(verdicts) :
        verdicts[i].q = verdicts[j].q => verdicts[i].skip = verdicts[j].skip

C20_Witness ==
    /\ inserted = { Rule(<<"apps">>, <<"deployments">>, <<"Progressing">>,
                         <<"True">>, <<"R">>, <<"boom">>),
                    Rule(<<"apps">>, <<"deployments">>, <<"Progressing">>,
                         <<"True">>, <<"R">>, <<>>) }
    /\ Len(verdicts) = 3
    /\ verdicts[1].q = verdicts[3].q
    /\ verdicts[1].q.cMessage = <<"boom">>
    /\ verdicts[1].skip
    /\ verdicts[3].skip
    /\ verdicts[2].q # verdicts[1].q
    /\ ~verdicts[2].skip


(***************************************************************************)
(* C27: a condition entry that is no key/value map is dropped without a    *)
(* report line, and the other entries of the object are classified and     *)
(* reported as if the malformed entry were absent.                         *)
(***************************************************************************)
WellFormedEntries == SelectSeq(Entries, LAMBDA e : e.isMap)

LinesWithoutMalformed ==
    printConditions(arguments, WellFormedEntries, 0, cluster[1].gvr.Resource,
                    TheObject).lines

C27_MalformedEntryDropped ==
    Classified =>
        /\ stdout = LinesWithoutMalformed
        /\ \A i \in 1..Len(Entries) : ~Entries[i].isMap => ~Reported(Entries[i])
        /\ work[1].output.checkedConditions = Len(WellFormedEntries)

C27_Witness ==
    /\ Classified
    /\ Entries = << Condition(<<"Ready">>, "False", <<"R">>, <<"M">>), NotAMap,
                    Condition(<<"Specific">>, "Unknown", <<"Q">>, <<"M">>) >>
    /\ stdout = {LineOf(Entries[1]), LineOf(Entries[3])}

(***************************************************************************)
(* C30: conditionDone is true for an entry of type MachinesReady with      *)
(* status False and a reason `Deleted` or `Deleted @ <object>`: the part   *)
(* of the reason before the @ is compared with the terminal reasons.       *)
(***************************************************************************)
C30_MachinesReadyDeletedIsDone ==
    \A i \in 1..Len(Entries) :
        ( /\ Classified
          /\ Entries[i].type = <<"Machines", "Ready">>
          /\ Entries[i].status = "False"
          /\ TrimSpace(BeforeAt(Entries[i].reason)) = <<"Deleted">> )
        => conditionDone(Entries[i].type, Entries[i].status, Entries[i].reason)


(***************************************************************************)
(* C25: every job put on the job queue is received by exactly one worker   *)
(* and produces exactly one result on the result queue: no job is lost,    *)
(* none is processed twice, and the aggregator never merges more results   *)
(* than jobs were sent.                                                    *)
(***************************************************************************)
JobsSent == nextJob - 1

ResultsSent == SumOver(tally.results, Len(cluster))

C25_OneReceiveOneResult ==
    /\ \A j \in Jobs :
          /\ tally.received[j] = (IF j <= JobsSent THEN 1 ELSE 0)
          /\ tally.results[j] <= tally.received[j]
          /\ tally.results[j] = 1 <=> work[j].pc = "sent"
    /\ tally.merged <= ResultsSent
    /\ ResultsSent <= JobsSent
    /\ resultsClosed =>
          \A j \in Jobs : tally.received[j] = 1 /\ tally.results[j] = 1
    /\ aggPc = "exited" => tally.merged = Len(cluster)

C25_Witness ==
    /\ Len(cluster) = 2
    /\ aggPc = "exited"
    /\ tally.merged = 2
    /\ \A j \in Jobs : tally.received[j] = 1 /\ tally.results[j] = 1

(***************************************************************************)
(* C26: a resource type whose list call fails is not listed a second time  *)
(* in the same cycle: every job issues at most one list call per cycle,    *)
(* and under a repeating controller the type is listed again in the next   *)
(* cycle.                                                                  *)
(***************************************************************************)
C26_OneListCallPerCycle ==
    /\ \A j \in Jobs : tally.lists[j] <= 1
    /\ resultsClosed =>
          \A j \in Jobs : issuesListCall(cluster[j]) => tally.lists[j] = 1

\* a type that failed in an earlier cycle is listed, and fails, once more
C26_Witness ==
    /\ arguments.WhileForever
    /\ resultsClosed
    /\ \E j \in Jobs :
          /\ cluster[j].list = "err"
          /\ cluster[j].gvr.Resource \in tally.failedBefore
          /\ tally.lists[j] = 1


(***************************************************************************)
(* C23: a malformed rule configuration (a resource without group, a        *)
(* matcher without type, a matcher that sets status, an unparseable        *)
(* pattern) makes config loading fail with ErrInvalidConfigYAML, and the   *)
(* failure is fatal before any scan cycle begins: no list call is made.    *)
(***************************************************************************)
C23_MalformedConfigIsFatal ==
    configFile \in MalformedFiles =>
        /\ LoadConfig(configFile).err = ErrInvalidConfigYAML
        /\ mainPc \in {"preRun", "execute", "stopped"}
        /\ mainPc # "preRun" => fatal \in {ErrInvalidConfigYAML, "invalid mode"}
        /\ mainPc = "stopped" => exitCode # 0
        /\ \A j \in Jobs : tally.lists[j] = 0
        /\ stdout = {}

C23_Witness ==
    /\ configFile =
          Yaml(<<Payload(<<"apps">>, <<>>, <<"deployments">>,
                         <<ConditionMatcher(<<"Progressing">>, <<"True">>, <<>>, <<>>)>>,
                         <<>>)>>)
    /\ fatal = ErrInvalidConfigYAML
    /\ mainPc = "stopped"
    /\ Len(cluster) > 0


(***************************************************************************)
(* C28: after addLegacyIgnore has returned added = true without error,     *)
(* shouldSkip called with the same six values returns true, for every      *)
(* group, the empty (core) group included.                                 *)
(***************************************************************************)
C28_AddedEntryIsSkipped ==
    (lastCall.n > 0 /\ lastCall.added /\ lastCall.err = "none") =>
        \A i \in 1..Len(verdicts) : verdicts[i].skip

\* The same for the groups that have a name: this holds.
C28_AddedEntryOfNamedGroupIsSkipped ==
    (lastCall.n > 0 /\ lastCall.added /\ lastCall.err = "none"
        /\ lastCall.q.group # <<>>) =>
        \A i \in 1..Len(verdicts) : verdicts[i].skip

(***************************************************************************)
(* C29: addLegacyIgnore is idempotent: a call with six values it was       *)
(* called with before returns added = false and leaves the skipIfTrue and  *)
(* skipIfFalse lists of every resource and the tree unchanged; no list of  *)
(* a resource holds two matchers of the same type, reason and message.     *)
(***************************************************************************)
NoDuplicateMatcher(matchers) ==
    \A i, k \in 1..Len(matchers) :
        (/\ matchers[i].Type = matchers[k].Type
         /\ matchers[i].Reason = matchers[k].Reason
         /\ matchers[i].Message = matchers[k].Message) => i = k

C29_SecondCallAddsNothing ==
    [][ /\ (lastCall'.n = lastCall.n + 1 /\ lastCall'.q \in lastCall.seen) =>
              /\ ~lastCall'.added
              /\ config'.Resources = config.Resources
              /\ config'.groupTree = config.groupTree
        /\ \A i \in 1..Len(config'.Resources) :
              /\ NoDuplicateMatcher(config'.Resources[i].SkipIfTrue)
              /\ NoDuplicateMatcher(config'.Resources[i].SkipIfFalse) ]_vars

C29_Witness ==
    /\ lastCall.n = 2
    /\ lastCall.seen = {lastCall.q}
    /\ ~lastCall.added
    /\ lastCall.err = "none"
    /\ \E i \in 1..Len(config.Resources) :
          /\ config.Resources[i].Name = lastCall.q.resource
          /\ Len(config.Resources[i].SkipIfFalse) = 1
          /\ Len(config.Resources[i].SkipIfTrue) = 1

(***************************************************************************)
(* The classifications of a run and the lines they report.                 *)
(***************************************************************************)
Classifying == mainPc = "run"

\* The lines of the classified entries that a classifier does not suppress
LinesKeptByLegacy ==
    { ModeLine(verdicts[i].q) :
        i \in { k \in 1..Len(verdicts) :
                  ~skipConditionLegacy(verdicts[k].q.resource, verdicts[k].q.e) } }

LinesKeptByConfig(c, order) ==
    { ModeLine(verdicts[i].q) :
        i \in { k \in 1..Len(verdicts) :
                  ~skipConditionViaConfig(c, order, verdicts[k].q.group,
                                          verdicts[k].q.resource, verdicts[k].q.e) } }

(***************************************************************************)
(* C21: mode isolation. Under only-old the reported lines are those the    *)
(* legacy logic keeps, whatever the Config holds, and the config is not    *)
(* evaluated; under only-new the reported lines are those the Config of    *)
(* the start keeps, whatever the legacy tables say, the legacy logic is    *)
(* not evaluated and the Config stays as loaded.                           *)
(***************************************************************************)
C21_ModeIsolation ==
    /\ (Classifying /\ settings.Mode = ModeOnlyOld) =>
          /\ stdout = LinesKeptByLegacy
          /\ \A i \in 1..Len(verdicts) : verdicts[i].viaConfig = "none"
    /\ (Classifying /\ settings.Mode = ModeOnlyNew) =>
          /\ \A order \in ModeOrders : stdout = LinesKeptByConfig(startConfig, order)
          /\ \A i \in 1..Len(verdicts) : verdicts[i].legacy = "none"
          /\ config = startConfig

\* only-new: an entry the legacy logic ignores is reported, one it keeps is
\* suppressed by the config
C21_Witness ==
    /\ Classifying
    /\ settings = [Mode |-> ModeOnlyNew, AutoAddFromLegacyConfig |-> TRUE]
    /\ Len(verdicts) = 3
    /\ verdicts[1].q.e.type = <<"Available">> /\ ~verdicts[1].skip
    /\ verdicts[2].q.e.type = <<"Specific">> /\ verdicts[2].skip
    /\ verdicts[3].q.e.type = <<"Available">> /\ ~verdicts[3].skip
    /\ verdicts[3].q.name # verdicts[1].q.name
    /\ skipConditionLegacy(verdicts[1].q.resource, verdicts[1].q.e)
    /\ ~skipConditionLegacy(verdicts[2].q.resource, verdicts[2].q.e)

(***************************************************************************)
(* C22: dual-mode comparison. In old-compare-new the legacy verdict alone  *)
(* decides, in new-compare-old the config verdict alone; both classifiers  *)
(* are evaluated for every entry; a WARNING is written exactly for the     *)
(* entries whose two verdicts differ; the reported lines are those of the  *)
(* mode only-old, or only-new, on the same entries.                        *)
(***************************************************************************)
ComparisonIsFaithful ==
    /\ \A i \in 1..Len(verdicts) :
          /\ verdicts[i].legacy # "none"
          /\ verdicts[i].viaConfig # "none"
          /\ verdicts[i].skip <=>
                (IF settings.Mode = ModeOldCompareNew THEN verdicts[i].legacy = "skip"
                 ELSE verdicts[i].viaConfig = "skip")
          /\ verdicts[i].warned <=> (verdicts[i].legacy # verdicts[i].viaConfig)
    /\ stderr = { Warning(verdicts[i].q, verdicts[i].legacy = "skip") :
                    i \in { k \in 1..Len(verdicts) : verdicts[k].warned } }

C22_DualModeComparison ==
    /\ (Classifying /\ settings.Mode = ModeOldCompareNew) =>
          /\ ComparisonIsFaithful
          /\ stdout = LinesKeptByLegacy
    /\ (Classifying /\ settings.Mode = ModeNewCompareOld) =>
          /\ ComparisonIsFaithful
          /\ \A order \in ModeOrders : stdout = LinesKeptByConfig(startConfig, order)

\* The same without --auto-add-from-legacy-config under new-compare-old: this
\* holds.
C22_DualModeComparisonWithoutAutoAdd ==
    /\ (Classifying /\ settings.Mode = ModeOldCompareNew) =>
          /\ ComparisonIsFaithful
          /\ stdout = LinesKeptByLegacy
    /\ (Classifying /\ settings = [Mode |-> ModeNewCompareOld,
                                   AutoAddFromLegacyConfig |-> FALSE]) =>
          /\ ComparisonIsFaithful
          /\ \A order \in ModeOrders : stdout = LinesKeptByConfig(startConfig, order)

(***************************************************************************)
(* C24: the classification of an entry changes no shared state other than  *)
(* the counters: the rule lists and the tree of the Config, and the file   *)
(* that holds them, are the same before and after every classification, in *)
(* every mode and with every flag.                                         *)
(***************************************************************************)
C24_ClassificationChangesNoRules ==
    [][ (Classifying /\ Len(verdicts') = Len(verdicts) + 1) =>
            /\ config' = config
            /\ configFile' = configFile ]_vars

\* The same without --auto-add-from-legacy-config: this holds.
C24_NoChangeWithoutAutoAdd ==
    [][ (Classifying /\ Len(verdicts') = Len(verdicts) + 1
            /\ ~settings.AutoAddFromLegacyConfig) =>
            /\ config' = config
            /\ configFile' = configFile ]_vars

====
